---- MODULE Spec2Model ----
(***************************************************************************)
(* Reconciliation of a multi-warehouse cluster: the create, update and     *)
(* delete handlers of celerdatabyoc/resource_elastic_cluster_v2.go, by     *)
(* step,                                                                   *)
(* with the remote calls they issue recorded in issue order.               *)
(***************************************************************************)
EXTENDS Integers, Sequences, FiniteSets, TLC

VARIABLES
    op,       \* entry point in progress: "create" | "update" | "delete"
    pc,       \* position inside the handler
    old,      \* d: the prior (persisted) state, first half of d.GetChange
    new,      \* d: the planned configuration, second half of d.GetChange
    id,       \* d.Id()
    log,      \* remote calls and waits issued by this invocation, in order
    diags,    \* diagnostics returned by the handler
    whi,      \* index of the running loop over a warehouse list
    sub,      \* request of the updateWarehouse/createWarehouse in progress
    cstate,   \* remote: state of the cluster
    wstate,   \* remote: state of every live warehouse, by name
    runs,     \* invocations of update on this cluster so far
    edits     \* edits made to the configuration being planned

vars == <<op, pc, old, new, id, log, diags, whi, sub, cstate, wstate, runs, edits>>

(***************************************************************************)
(* Bounds of the model.                                                    *)
(***************************************************************************)
\* number of elementary edits between the prior state and the plan
MaxEdits == 2
\* number of update invocations in a row on one cluster
MaxRuns == 2
\* longest timeout of a wait, in poll intervals
MaxPolls == 4

(***************************************************************************)
(* Program constants.                                                      *)
(***************************************************************************)
DEFAULT_WAREHOUSE_NAME == "default_warehouse"
CROSSING_AZ == "crossing_az"
SPECIFY_AZ == "specify_az"

\* defaults of the coordinator disk and of a warehouse's disks
FeDefaultVolSize == 150
BeDefaultVolNumber == 2
BeDefaultVolSize == 100
\* minutes to milliseconds: interval * 60 * 1000
MsPerMinute == 60000

ClusterStateDeploying == "deploying"
ClusterStateScaling == "scaling"
ClusterStateResuming == "resuming"
ClusterStateSuspending == "suspending"
ClusterStateReleasing == "releasing"
ClusterStateUpdating == "updating"
ClusterStateRunning == "running"
ClusterStateSuspended == "suspended"
ClusterStateAbnormal == "abnormal"
ClusterStateReleased == "released"

InfraPending == "infra_pending"
InfraOngoing == "infra_ongoing"
InfraSucceeded == "infra_succeeded"
InfraCompleted == "infra_completed"
InfraFailed == "infra_failed"

TransientStates ==
    {ClusterStateDeploying, ClusterStateScaling, ClusterStateResuming,
     ClusterStateSuspending, ClusterStateReleasing, ClusterStateUpdating}

InfraPendingStates == {InfraPending, InfraOngoing}
InfraTargetStates == {InfraSucceeded, InfraCompleted, InfraFailed}

(***************************************************************************)
(* The domains the configurations are drawn from.                          *)
(***************************************************************************)
Names == {"a", "b", "c "}
VmCates == {"m1", "m2"}
FeCounts == {1, 3, 5}
WhCounts == {3, 4}
IdleIntervals == {0, 30}
ExpectedStates == {ClusterStateRunning, ClusterStateSuspended}
ConfigMaps == {{}, {<<"k", "1">>}}
Policies == {"", "p1"}
Distributions == {<<CROSSING_AZ, "">>, <<SPECIFY_AZ, "az1">>}
FeVolumes == {<<>>, <<[vol_size |-> 150, iops |-> 0]>>, <<[vol_size |-> 200, iops |-> 0]>>}
WhVolumes ==
    {<<>>,
     <<[vol_number |-> 2, vol_size |-> 100, iops |-> 0]>>,
     <<[vol_number |-> 2, vol_size |-> 200, iops |-> 0]>>,
     <<[vol_number |-> 2, vol_size |-> 50, iops |-> 0]>>,
     <<[vol_number |-> 3, vol_size |-> 100, iops |-> 0]>>}
Amis == {<<>>, <<[ami |-> "ami1", os |-> "al2023"]>>, <<[ami |-> "ami2", os |-> "al2023"]>>}
ImmutableFields_NoPort ==
    <<"csp", "region", "cluster_name", "default_admin_password", "data_credential_id",
      "deployment_credential_id", "network_id">>
ImmutableFields ==
    <<"csp", "region", "cluster_name", "default_admin_password", "data_credential_id",
      "deployment_credential_id", "network_id", "query_port">>
ScalarDomains ==
    [idle_suspend_interval |-> IdleIntervals,
     expected_cluster_state |-> ExpectedStates,
     ldap_ssl_certs |-> {{}, {"cert1"}},
     resource_tags |-> {{}, {<<"team", "x">>}},
     init_scripts |-> {{}, {"s1"}},
     ranger_certs_dir |-> {"", "dir1"},
     coordinator_node_size |-> VmCates,
     coordinator_node_count |-> FeCounts,
     coordinator_node_volume_config |-> FeVolumes,
     coordinator_node_configs |-> ConfigMaps,
     custom_ami |-> Amis,
     csp |-> {"aws", "azure"},
     region |-> {"r1", "r2"},
     cluster_name |-> {"n1", "n2"},
     default_admin_password |-> {"p1", "p2"},
     data_credential_id |-> {"dc1", "dc2"},
     deployment_credential_id |-> {"pc1", "pc2"},
     network_id |-> {"net1", "net2"},
     query_port |-> {9030, 9031}]

Warehouse(n, idle, st) ==
    [name |-> n,
     compute_node_size |-> "m1",
     compute_node_count |-> 3,
     distribution_policy |-> CROSSING_AZ,
     specify_az |-> "",
     compute_node_volume_config |-> <<>>,
     idle_suspend_interval |-> idle,
     expected_state |-> st,
     compute_node_configs |-> {},
     auto_scaling_policy |-> ""]

ExternalInfo(n) ==
    [Id |-> <<"wh", n>>, IsDefaultWarehouse |-> (n = DEFAULT_WAREHOUSE_NAME), IsInstanceStore |-> FALSE]

ExternalInfoOf(whs) ==
    [n \in {DEFAULT_WAREHOUSE_NAME} \cup {whs[i].name : i \in DOMAIN whs} |-> ExternalInfo(n)]

State(ft, idle, st, ami, whs) ==
    [idle_suspend_interval |-> idle,
     expected_cluster_state |-> st,
     ldap_ssl_certs |-> {},
     resource_tags |-> {},
     init_scripts |-> {},
     ranger_certs_dir |-> "",
     free_tier |-> ft,
     coordinator_node_size |-> "m1",
     coordinator_node_count |-> 3,
     coordinator_node_volume_config |-> <<>>,
     coordinator_node_configs |-> {},
     default_warehouse |-> Warehouse(DEFAULT_WAREHOUSE_NAME, 0, ClusterStateRunning),
     warehouse |-> whs,
     custom_ami |-> ami,
     warehouse_external_info |-> ExternalInfoOf(whs),
     csp |-> "aws",
     region |-> "r1",
     cluster_name |-> "n1",
     default_admin_password |-> "p1",
     data_credential_id |-> "dc1",
     deployment_credential_id |-> "pc1",
     network_id |-> "net1",
     query_port |-> 9030]

\* the persisted states an update starts from (as the last read left them)
PaidCluster ==
    State(FALSE, 30, ClusterStateRunning, <<[ami |-> "ami1", os |-> "al2023"]>>,
          <<Warehouse("a", 30, ClusterStateRunning), Warehouse("b", 0, ClusterStateRunning)>>)
FreeCluster ==
    State(TRUE, 0, ClusterStateSuspended, <<>>, <<Warehouse("a", 0, ClusterStateSuspended)>>)
OldStates == {PaidCluster, FreeCluster}

\* the configurations a create starts from: nothing is computed yet
Unborn(c) == [c EXCEPT !.warehouse_external_info = [n \in {} |-> n], !.free_tier = FALSE]
CreateBases == {Unborn(FreeCluster)}

(***************************************************************************)
(* Plans: the elementary edits of a configuration.                         *)
(***************************************************************************)
WhEdits(w, named) ==
    {[w EXCEPT !.compute_node_size = v] : v \in VmCates}
    \cup {[w EXCEPT !.compute_node_count = v] : v \in WhCounts}
    \cup {[w EXCEPT !.distribution_policy = p[1], !.specify_az = p[2]] : p \in Distributions}
    \cup {[w EXCEPT !.compute_node_volume_config = v] : v \in WhVolumes}
    \cup {[w EXCEPT !.compute_node_configs = v] : v \in ConfigMaps}
    \cup {[w EXCEPT !.auto_scaling_policy = v] : v \in Policies}
    \cup (IF named
          THEN {[w EXCEPT !.idle_suspend_interval = v] : v \in IdleIntervals}
               \cup {[w EXCEPT !.expected_state = v] : v \in ExpectedStates}
          ELSE {})

NamesOf(whs) == {whs[i].name : i \in DOMAIN whs}

RemoveAt(s, i) == SubSeq(s, 1, i - 1) \o SubSeq(s, i + 1, Len(s))

ConfEdits(c) ==
    UNION {{[c EXCEPT ![f] = v] : v \in ScalarDomains[f]} : f \in DOMAIN ScalarDomains}
    \cup {[c EXCEPT !.default_warehouse = w] : w \in WhEdits(c.default_warehouse, FALSE)}
    \cup UNION {{[c EXCEPT !.warehouse[i] = w] : w \in WhEdits(c.warehouse[i], TRUE)} :
                i \in DOMAIN c.warehouse}
    \cup {[c EXCEPT !.warehouse = RemoveAt(c.warehouse, i)] : i \in DOMAIN c.warehouse}
    \cup UNION {{[c EXCEPT !.warehouse = <<Warehouse(n, 0, ClusterStateRunning)>> \o c.warehouse],
                 [c EXCEPT !.warehouse = c.warehouse \o <<Warehouse(n, 0, ClusterStateRunning)>>]} :
                n \in Names \ NamesOf(c.warehouse)}

(***************************************************************************)
(* Remote facts the handlers look up.                                      *)
(***************************************************************************)
\* GetNetwork(network_id).Network.MultiAz
MultiAz(net) == net = "net2"

\* netResp.Network.MultiAz && coordinatorNodeCount < 3
MultiAzTooFew_AtMostThree(multiAz, count) == multiAz /\ count <= 3
MultiAzTooFew(multiAz, count) == multiAz /\ count < 3

\* remote state a persisted state corresponds to when nothing drifted
RemoteWarehouses(c) ==
    [n \in {DEFAULT_WAREHOUSE_NAME} \cup NamesOf(c.warehouse) |->
        IF n = DEFAULT_WAREHOUSE_NAME THEN ClusterStateRunning
        ELSE (CHOOSE w \in {c.warehouse[i] : i \in DOMAIN c.warehouse} : w.name = n).expected_state]

(***************************************************************************)
(* Log entries and diagnostics.                                            *)
(***************************************************************************)
Call(name, ent, arg) == [kind |-> "call", op |-> name, ent |-> ent, arg |-> arg]
Wait(name, ent, pending, target, result) ==
    [kind |-> "wait", op |-> name, ent |-> ent,
     arg |-> [pending |-> pending, target |-> target, result |-> result]]
Query(name, ent) == [kind |-> "query", op |-> name, ent |-> ent, arg |-> <<>>]

\* stateResp.AbnormalReason, and err.Error() of a failed call or wait
AbnormalReason == "abnormal reason"
ErrText == "error text"

Diagnostic(sev, msg, detail) == [severity |-> sev, summary |-> msg, detail |-> detail]
\* diag.FromErr: the message is the summary
ErrorDiag(msg) == Diagnostic("error", msg, "")
\* a warning whose detail is err.Error()
WarningDiag(msg) == Diagnostic("warning", msg, ErrText)

\* the calls of the log that mutate the remote system
Mutations(l) == SelectSeq(l, LAMBDA e : e.kind = "call")

\* the states a wait on an infra action is seen to end in
InfraResults == {InfraSucceeded, InfraFailed}

\* a call followed by the wait on the action it started; r is what happened:
\* the call failed, it returned no action id, the wait failed, or the wait
\* ended in the state r
Issued(call, waitName, pending, target, r) ==
    IF r \in {"rpc_err", "no_action"} THEN <<call>>
    ELSE <<call, Wait(waitName, call.ent, pending, target, IF r = "wait_err" THEN "error" ELSE r)>>

SyncResults == {"ok", "rpc_err"}
AsyncResults(target) == {"rpc_err", "wait_err"} \cup target
OptAsyncResults(target) == {"rpc_err", "no_action", "wait_err"} \cup target

(***************************************************************************)
(* d.HasChange, d.IsNewResource                                            *)
(***************************************************************************)
HasChange(f) == old[f] # new[f]
IsNewResource == op = "create"

(***************************************************************************)
(* Control flow: the order of the steps of each handler.                   *)
(***************************************************************************)
\* the two loops over the named warehouses: the new list, then the old list
WarehouseLoops_ReleaseFirst == <<"u_release", "u_warehouses">>
WarehouseLoops == <<"u_warehouses", "u_release">>

UpdateSteps_SuspendEarly ==
    <<"u_immutable", "u_wait", "u_idle", "u_resume", "u_suspend", "u_ldap", "u_tags",
      "u_scripts", "u_ranger", "u_unlock", "u_fe_size", "u_fe_count", "u_fe_volume",
      "u_fe_configs", "u_default_wh">> \o WarehouseLoops
      \o <<"u_ami", "u_ami_wh", "u_ami_fe", "done">>
UpdateSteps ==
    <<"u_immutable", "u_wait", "u_idle", "u_resume", "u_ldap", "u_tags", "u_scripts",
      "u_ranger", "u_unlock", "u_fe_size", "u_fe_count", "u_fe_volume", "u_fe_configs",
      "u_default_wh">> \o WarehouseLoops
      \o <<"u_suspend", "u_ami", "u_ami_wh", "u_ami_fe", "done">>

After(steps, l) == steps[(CHOOSE i \in DOMAIN steps : steps[i] = l) + 1]

\* one step of a handler: what it appends to the log, where it goes, what it
\* returns and what it leaves of the remote state
Step(entries, next, d, cs, ws) ==
    /\ log' = log \o entries
    /\ pc' = next
    /\ diags' = d
    /\ cstate' = cs
    /\ wstate' = ws

Skip(next) == Step(<<>>, next, diags, cstate, wstate)
Go(entries, next) == Step(entries, next, diags, cstate, wstate)
Return(entries, d) == Step(entries, "done", diags \o <<d>>, cstate, wstate)

(***************************************************************************)
(* resourceElasticClusterV2Update, cluster-level steps.                    *)
(***************************************************************************)
ClusterId == "cluster1"

QuiescentStates ==
    {ClusterStateRunning, ClusterStateSuspended, ClusterStateAbnormal, ClusterStateReleased}

\* the immutable fields are compared before anything else
UpdateImmutable ==
    /\ pc = "u_immutable"
    /\ IF \E i \in DOMAIN ImmutableFields : HasChange(ImmutableFields[i]) /\ ~IsNewResource
       THEN Return(<<>>, ErrorDiag("field is not allowed to be modified"))
       ELSE Skip(After(UpdateSteps, "u_immutable"))
    /\ UNCHANGED <<op, old, new, id, whi, sub, runs, edits>>

\* d.SetId("") when the wait reports the cluster released
IdAfterUpdateWait_ClearedOnAbnormal(r) ==
    IF r \in {ClusterStateReleased, ClusterStateAbnormal} THEN "" ELSE id
IdAfterUpdateWait(r) == IF r = ClusterStateReleased THEN "" ELSE id

\* the wait for a quiescent cluster; it observes the state of the cluster,
\* or a cluster that was released or went abnormal behind the state's back
UpdateWait ==
    /\ pc = "u_wait"
    /\ \E r \in {"wait_err", cstate, ClusterStateAbnormal, ClusterStateReleased} :
         LET w == Wait("WaitClusterStateChangeComplete", "cluster", TransientStates,
                       QuiescentStates, IF r = "wait_err" THEN "error" ELSE r)
             cs == IF r = "wait_err" THEN cstate ELSE r
         IN  /\ log' = Append(log, w)
             /\ cstate' = cs
             /\ wstate' = wstate
             /\ id' = IdAfterUpdateWait(r)
             /\ IF r = "wait_err"
                THEN pc' = "done" /\ diags' = diags \o <<ErrorDiag("waiting for cluster change complete")>>
                ELSE IF r = ClusterStateReleased
                THEN pc' = "done" /\ diags' = diags \o <<ErrorDiag("cluster not found")>>
                ELSE IF r = ClusterStateAbnormal
                THEN pc' = "done" /\ diags' = diags \o <<ErrorDiag(AbnormalReason)>>
                ELSE pc' = After(UpdateSteps, "u_wait") /\ diags' = diags
    /\ UNCHANGED <<op, old, new, whi, sub, runs, edits>>

\* the request of the cluster's idle configuration: disabling keeps the
\* last interval
ClusterIdleReq(o, n) ==
    LET enable == n > 0
        v == IF enable THEN n ELSE o
    IN  [IntervalMs |-> v * MsPerMinute, State |-> enable]

UpdateIdle ==
    /\ pc = "u_idle"
    /\ IF HasChange("idle_suspend_interval") /\ ~IsNewResource
       THEN \E r \in SyncResults :
              LET c == Call("UpdateClusterIdleConfig", "cluster",
                            ClusterIdleReq(old.idle_suspend_interval, new.idle_suspend_interval))
              IN  IF r = "ok" THEN Go(<<c>>, After(UpdateSteps, "u_idle"))
                  ELSE Return(<<c>>, WarningDiag("config cluster idle config failed"))
       ELSE Skip(After(UpdateSteps, "u_idle"))
    /\ UNCHANGED <<op, old, new, id, whi, sub, runs, edits>>

needResume ==
    /\ HasChange("expected_cluster_state")
    /\ ~IsNewResource
    /\ new.expected_cluster_state = ClusterStateRunning

needSuspend ==
    /\ HasChange("expected_cluster_state")
    /\ ~IsNewResource
    /\ new.expected_cluster_state = ClusterStateSuspended

\* UpdateClusterState(ctx, clusterAPI, id, o, n): suspend or resume the
\* cluster and wait for the state n; next is where the handler goes on
UpdateClusterState(n, next) ==
    \E r \in AsyncResults({n, ClusterStateAbnormal}) :
      LET c == Call(IF n = ClusterStateSuspended THEN "Suspend" ELSE "Resume", "cluster", <<>>)
          es == Issued(c, "WaitClusterStateChangeComplete", TransientStates,
                       {n, ClusterStateAbnormal}, r)
      IN  IF r = n THEN Step(es, next, diags, n, wstate)
          ELSE IF r = ClusterStateAbnormal
          THEN Step(es, "done", diags \o <<ErrorDiag(AbnormalReason)>>, r, wstate)
          ELSE Return(es, ErrorDiag("update cluster state failed"))

UpdateResume ==
    /\ pc = "u_resume"
    /\ IF needResume
       THEN UpdateClusterState(new.expected_cluster_state, After(UpdateSteps, "u_resume"))
       ELSE Skip(After(UpdateSteps, "u_resume"))
    /\ UNCHANGED <<op, old, new, id, whi, sub, runs, edits>>

\* a synchronous call made when field f changed; failing, it returns d
SyncOnChange(label, f, name, ent, d) ==
    /\ pc = label
    /\ IF HasChange(f) /\ ~IsNewResource
       THEN \E r \in SyncResults :
              IF r = "ok" THEN Go(<<Call(name, ent, new[f])>>, After(UpdateSteps, label))
              ELSE Return(<<Call(name, ent, new[f])>>, d)
       ELSE Skip(After(UpdateSteps, label))
    /\ UNCHANGED <<op, old, new, id, whi, sub, runs, edits>>

UpdateLdap ==
    SyncOnChange("u_ldap", "ldap_ssl_certs", "UpsertClusterLdapSslCert", "cluster",
                 WarningDiag("upsert ldap ssl certs failed"))

UpdateTags ==
    SyncOnChange("u_tags", "resource_tags", "UpdateResourceTags", "cluster",
                 ErrorDiag("failed to update resource tags"))

UpdateScripts ==
    SyncOnChange("u_scripts", "init_scripts", "UpdateDeploymentScripts", "cluster",
                 ErrorDiag("failed to update init-scripts"))

UpdateRanger ==
    SyncOnChange("u_ranger", "ranger_certs_dir", "UpsertClusterRangerCert", "cluster",
                 WarningDiag("upsert ranger certs failed"))

elasticClusterV2NeedUnlock_FreeTierOnly == ~IsNewResource /\ new.free_tier
elasticClusterV2NeedUnlock ==
    LET result == ~IsNewResource /\ new.free_tier
                  /\ (HasChange("coordinator_node_size") \/ HasChange("coordinator_node_count"))
    IN  IF ~result /\ (HasChange("warehouse") \/ HasChange("default_warehouse"))
        THEN TRUE
        ELSE result

UpdateUnlock ==
    /\ pc = "u_unlock"
    /\ IF elasticClusterV2NeedUnlock
       THEN \E r \in SyncResults :
              IF r = "ok" THEN Go(<<Call("UnlockFreeTier", "cluster", <<>>)>>, After(UpdateSteps, "u_unlock"))
              ELSE Return(<<Call("UnlockFreeTier", "cluster", <<>>)>>, ErrorDiag("failed to unlock free tier"))
       ELSE Skip(After(UpdateSteps, "u_unlock"))
    /\ UNCHANGED <<op, old, new, id, whi, sub, runs, edits>>

\* a scale call on the cluster and the wait for it
\* a scale call of the cluster and the wait for it; abnormal or an error ends the handler
ScaleCluster_IgnoreAbnormal(name, ent, arg, pending, next) ==
    \E r \in AsyncResults({ClusterStateRunning, ClusterStateAbnormal}) :
      LET es == Issued(Call(name, ent, arg), "WaitClusterStateChangeComplete", pending,
                       {ClusterStateRunning, ClusterStateAbnormal}, r)
      IN  IF r \in {ClusterStateRunning, ClusterStateAbnormal} THEN Step(es, next, diags, r, wstate)
          ELSE Return(es, ErrorDiag("scale failed"))
ScaleCluster(name, ent, arg, pending, next) ==
    \E r \in AsyncResults({ClusterStateRunning, ClusterStateAbnormal}) :
      LET es == Issued(Call(name, ent, arg), "WaitClusterStateChangeComplete", pending,
                       {ClusterStateRunning, ClusterStateAbnormal}, r)
      IN  IF r = ClusterStateRunning THEN Step(es, next, diags, r, wstate)
          ELSE IF r = ClusterStateAbnormal
          THEN Step(es, "done", diags \o <<ErrorDiag(AbnormalReason)>>, r, wstate)
          ELSE Return(es, ErrorDiag("scale failed"))

UpdateFeSize ==
    /\ pc = "u_fe_size"
    /\ IF HasChange("coordinator_node_size") /\ ~IsNewResource
       THEN ScaleCluster("ScaleUp", "FE", new.coordinator_node_size, {ClusterStateScaling},
                         After(UpdateSteps, "u_fe_size"))
       ELSE Skip(After(UpdateSteps, "u_fe_size"))
    /\ UNCHANGED <<op, old, new, id, whi, sub, runs, edits>>

UpdateFeCount ==
    /\ pc = "u_fe_count"
    /\ IF HasChange("coordinator_node_count") /\ ~IsNewResource
       THEN ScaleCluster(IF new.coordinator_node_count > old.coordinator_node_count
                         THEN "ScaleOut" ELSE "ScaleIn",
                         "FE", new.coordinator_node_count, {ClusterStateScaling},
                         After(UpdateSteps, "u_fe_count"))
       ELSE Skip(After(UpdateSteps, "u_fe_count"))
    /\ UNCHANGED <<op, old, new, id, whi, sub, runs, edits>>

DefaultFeVolumeMap == [vol_size |-> FeDefaultVolSize, iops |-> 0]
DefaultBeVolumeMap == [vol_number |-> BeDefaultVolNumber, vol_size |-> BeDefaultVolSize, iops |-> 0]

VolumeOr(list, default) == IF Len(list) > 0 THEN list[1] ELSE default

\* ModifyClusterVolumeReq: only the values that differ are sent
ModifyVolumeReq(o, n) ==
    [VmVolSize |-> IF n.vol_size # o.vol_size THEN n.vol_size ELSE 0,
     Iops |-> IF n.iops # o.iops THEN n.iops ELSE 0]

\* ModifyClusterVolume and the wait for its infra action, if it has one
ModifyVolume(ent, req, next) ==
    \E r \in OptAsyncResults(InfraResults) :
      LET es == Issued(Call("ModifyClusterVolume", ent, req),
                       "WaitClusterInfraActionStateChangeComplete",
                       InfraPendingStates, InfraTargetStates, r)
      IN  IF r \in {"no_action", InfraSucceeded, InfraCompleted} THEN Go(es, next)
          ELSE Return(es, ErrorDiag("modify volume failed"))

UpdateFeVolume ==
    /\ pc = "u_fe_volume"
    /\ IF HasChange("coordinator_node_volume_config")
       THEN ModifyVolume("FE",
                         ModifyVolumeReq(VolumeOr(old.coordinator_node_volume_config, DefaultFeVolumeMap),
                                         VolumeOr(new.coordinator_node_volume_config, DefaultFeVolumeMap)),
                         After(UpdateSteps, "u_fe_volume"))
       ELSE Skip(After(UpdateSteps, "u_fe_volume"))
    /\ UNCHANGED <<op, old, new, id, whi, sub, runs, edits>>

\* UpsertClusterConfig: a failure is returned as a warning
UpsertClusterConfig(ent, configs, next) ==
    \E r \in SyncResults :
      IF r = "ok" THEN Go(<<Call("UpsertClusterConfig", ent, configs)>>, next)
      ELSE Return(<<Call("UpsertClusterConfig", ent, configs)>>, WarningDiag("upsert config failed"))

UpdateFeConfigs ==
    /\ pc = "u_fe_configs"
    /\ IF HasChange("coordinator_node_configs")
       THEN UpsertClusterConfig("FE", new.coordinator_node_configs, After(UpdateSteps, "u_fe_configs"))
       ELSE Skip(After(UpdateSteps, "u_fe_configs"))
    /\ UNCHANGED <<op, old, new, id, whi, sub, runs, edits>>

(***************************************************************************)
(* updateWarehouse                                                         *)
(***************************************************************************)
UpdateWarehouseSteps_ResumeFirst ==
    <<"w_resume", "w_dist", "w_size", "w_count", "w_volume", "w_idle", "w_configs",
      "w_suspend", "w_asp", "return">>
UpdateWarehouseSteps ==
    <<"w_dist", "w_size", "w_count", "w_volume", "w_idle", "w_resume", "w_configs",
      "w_suspend", "w_asp", "return">>

CreateWarehouseSteps ==
    <<"c_create", "c_asp", "c_configs", "c_suspend", "c_idle", "return">>

NoSub == [caller |-> "none"]

\* where a warehouse operation returns to
ReturnLabel ==
    CASE sub.caller = "default" -> After(UpdateSteps, "u_default_wh")
      [] sub.caller \in {"modified", "added"} -> "u_warehouses"
      [] sub.caller = "create" -> "cr_warehouses"
      [] sub.caller = "direct" -> "done"

AfterSub(steps, l) ==
    LET n == After(steps, l) IN IF n = "return" THEN ReturnLabel ELSE n

\* a diagnostic of createWarehouse as its caller returns it: create
\* downgrades it to a warning, update returns it unchanged
SubDiag(d) ==
    IF sub.caller = "create" THEN Diagnostic("warning", "Create warehouse failed", d.detail) ELSE d

SubReturn(entries, d) == Return(entries, SubDiag(d))

InfraCall_NoWait(c, next, msg) ==
    \E r \in SyncResults :
      IF r = "ok" THEN Go(<<c>>, next) ELSE Return(<<c>>, ErrorDiag(msg))
InfraCall(c, next, msg) ==
    \E r \in AsyncResults(InfraResults) :
      LET es == Issued(c, "WaitClusterInfraActionStateChangeComplete",
                       InfraPendingStates, InfraTargetStates, r)
      IN  IF r \in {InfraSucceeded, InfraCompleted} THEN Go(es, next)
          ELSE Return(es, ErrorDiag(msg))

WarehouseDistribution ==
    /\ pc = "w_dist"
    /\ LET o == sub.oldParamMap
           n == sub.newParamMap
           computeNodeDistributionChanged ==
               \/ o.distribution_policy # n.distribution_policy
               \/ (n.distribution_policy = SPECIFY_AZ /\ o.specify_az # n.specify_az)
       IN  IF computeNodeDistributionChanged
           THEN InfraCall(Call("ChangeWarehouseDistribution", n.name,
                               [DistributionPolicy |-> n.distribution_policy, SpecifyAz |-> n.specify_az]),
                          AfterSub(UpdateWarehouseSteps, "w_dist"),
                          "failed to change warehouse distribution")
           ELSE Skip(AfterSub(UpdateWarehouseSteps, "w_dist"))
    /\ UNCHANGED <<op, old, new, id, whi, sub, runs, edits>>

\* a scale call on a warehouse and the wait for it
\* pendingStates of the waits after ScaleWarehouseSize and ScaleWarehouseNum
WarehouseScalePending_ScalingOnly == {ClusterStateScaling}
WarehouseScalePending == {ClusterStateRunning, ClusterStateScaling}

ScaleWarehouse_NoWait(name, ent, arg, next) ==
    \E r \in SyncResults :
      IF r = "ok" THEN Go(<<Call(name, ent, arg)>>, next)
      ELSE Return(<<Call(name, ent, arg)>>, ErrorDiag("failed to scale warehouse"))
ScaleWarehouse(name, ent, arg, next) ==
    \E r \in AsyncResults({ClusterStateRunning, ClusterStateAbnormal}) :
      LET es == Issued(Call(name, ent, arg), "WaitClusterStateChangeComplete",
                       WarehouseScalePending,
                       {ClusterStateRunning, ClusterStateAbnormal}, r)
      IN  IF r = ClusterStateRunning THEN Go(es, next)
          ELSE IF r = ClusterStateAbnormal
          THEN Step(es, "done", diags \o <<ErrorDiag(AbnormalReason)>>, r, wstate)
          ELSE Return(es, ErrorDiag("failed to scale warehouse"))

WarehouseSize ==
    /\ pc = "w_size"
    /\ LET o == sub.oldParamMap
           n == sub.newParamMap
           computeNodeSizeChanged == o.compute_node_size # n.compute_node_size
       IN  IF computeNodeSizeChanged
           THEN ScaleWarehouse("ScaleWarehouseSize", n.name, n.compute_node_size,
                               AfterSub(UpdateWarehouseSteps, "w_size"))
           ELSE Skip(AfterSub(UpdateWarehouseSteps, "w_size"))
    /\ UNCHANGED <<op, old, new, id, whi, sub, runs, edits>>

WarehouseCount ==
    /\ pc = "w_count"
    /\ LET o == sub.oldParamMap
           n == sub.newParamMap
           computeNodeCountChanged == o.compute_node_count # n.compute_node_count
       IN  IF computeNodeCountChanged
           THEN ScaleWarehouse("ScaleWarehouseNum", n.name, n.compute_node_count,
                               AfterSub(UpdateWarehouseSteps, "w_count"))
           ELSE Skip(AfterSub(UpdateWarehouseSteps, "w_count"))
    /\ UNCHANGED <<op, old, new, id, whi, sub, runs, edits>>

WarehouseVolume ==
    /\ pc = "w_volume"
    /\ LET o == VolumeOr(sub.oldParamMap.compute_node_volume_config, DefaultBeVolumeMap)
           n == VolumeOr(sub.newParamMap.compute_node_volume_config, DefaultBeVolumeMap)
           VolumeConfigChanged == o # n
       IN  IF ~sub.whExternalInfo.IsInstanceStore /\ VolumeConfigChanged
           THEN IF o.vol_number # n.vol_number
                THEN Return(<<>>, ErrorDiag("the compute node vol_number is not allowed to be modified"))
                ELSE IF o.vol_size > n.vol_size
                THEN Return(<<>>, ErrorDiag("the compute node vol_size does not support decrease"))
                ELSE ModifyVolume(sub.newParamMap.name, ModifyVolumeReq(o, n),
                                  AfterSub(UpdateWarehouseSteps, "w_volume"))
           ELSE Skip(AfterSub(UpdateWarehouseSteps, "w_volume"))
    /\ UNCHANGED <<op, old, new, id, whi, sub, runs, edits>>

\* the request of a warehouse's idle configuration
WarehouseIdleReq(o, n) == [IntervalMs |-> n * MsPerMinute, State |-> n > 0]

WarehouseIdle ==
    /\ pc = "w_idle"
    /\ LET o == sub.oldParamMap
           n == sub.newParamMap
       IN  IF ~sub.whExternalInfo.IsDefaultWarehouse
              /\ o.idle_suspend_interval # n.idle_suspend_interval
           THEN \E r \in SyncResults :
                  LET c == Call("UpdateWarehouseIdleConfig", n.name,
                                WarehouseIdleReq(o.idle_suspend_interval, n.idle_suspend_interval))
                  IN  IF r = "ok" THEN Go(<<c>>, AfterSub(UpdateWarehouseSteps, "w_idle"))
                      ELSE Return(<<c>>, WarningDiag("Config warehouse idle config failed"))
           ELSE Skip(AfterSub(UpdateWarehouseSteps, "w_idle"))
    /\ UNCHANGED <<op, old, new, id, whi, sub, runs, edits>>

expectedStateChanged ==
    /\ ~sub.whExternalInfo.IsDefaultWarehouse
    /\ sub.oldParamMap.expected_state # sub.newParamMap.expected_state

\* ResumeWarehouse: every failure is an error
ResumeWarehouse_WarnOnAbnormal(ent, next) ==
    \E r \in OptAsyncResults({ClusterStateRunning, ClusterStateAbnormal}) :
      LET es == Issued(Call("ResumeWarehouse", ent, <<>>), "WaitClusterStateChangeComplete",
                       TransientStates \cup {ClusterStateSuspended},
                       {ClusterStateRunning, ClusterStateAbnormal}, r)
      IN  IF r \in {"no_action", ClusterStateRunning}
          THEN Step(es, next, diags, cstate, [wstate EXCEPT ![ent] = ClusterStateRunning])
          ELSE IF r = ClusterStateAbnormal
          THEN Return(es, Diagnostic("warning", "Resume warehouse", AbnormalReason))
          ELSE Return(es, ErrorDiag("Resume warehouse failed"))
ResumeWarehouse(ent, next) ==
    \E r \in OptAsyncResults({ClusterStateRunning, ClusterStateAbnormal}) :
      LET es == Issued(Call("ResumeWarehouse", ent, <<>>), "WaitClusterStateChangeComplete",
                       TransientStates \cup {ClusterStateSuspended},
                       {ClusterStateRunning, ClusterStateAbnormal}, r)
      IN  IF r \in {"no_action", ClusterStateRunning}
          THEN Step(es, next, diags, cstate, [wstate EXCEPT ![ent] = ClusterStateRunning])
          ELSE IF r = ClusterStateAbnormal
          THEN Return(es, ErrorDiag(AbnormalReason))
          ELSE Return(es, ErrorDiag("Resume warehouse failed"))

\* SuspendWarehouse: every failure is a warning
SuspendWarehouse_ErrorOnTimeout(ent, next) ==
    \E r \in OptAsyncResults({ClusterStateSuspended, ClusterStateAbnormal}) :
      LET es == Issued(Call("SuspendWarehouse", ent, <<>>), "WaitClusterStateChangeComplete",
                       TransientStates \cup {ClusterStateRunning},
                       {ClusterStateSuspended, ClusterStateAbnormal}, r)
      IN  IF r \in {"no_action", ClusterStateSuspended}
          THEN Step(es, next, diags, cstate, [wstate EXCEPT ![ent] = ClusterStateSuspended])
          ELSE IF r = ClusterStateAbnormal
          THEN Return(es, Diagnostic("warning", "Suspend warehouse", AbnormalReason))
          ELSE IF r = "wait_err"
          THEN Return(es, ErrorDiag("Suspend warehouse"))
          ELSE Return(es, WarningDiag("Suspend warehouse failed"))
SuspendWarehouse(ent, next) ==
    \E r \in OptAsyncResults({ClusterStateSuspended, ClusterStateAbnormal}) :
      LET es == Issued(Call("SuspendWarehouse", ent, <<>>), "WaitClusterStateChangeComplete",
                       TransientStates \cup {ClusterStateRunning},
                       {ClusterStateSuspended, ClusterStateAbnormal}, r)
      IN  IF r \in {"no_action", ClusterStateSuspended}
          THEN Step(es, next, diags, cstate, [wstate EXCEPT ![ent] = ClusterStateSuspended])
          ELSE IF r = ClusterStateAbnormal
          THEN Return(es, Diagnostic("warning", "Suspend warehouse", AbnormalReason))
          ELSE IF r = "wait_err"
          THEN Return(es, WarningDiag("Suspend warehouse"))
          ELSE Return(es, WarningDiag("Suspend warehouse failed"))

WarehouseResume ==
    /\ pc = "w_resume"
    /\ IF expectedStateChanged /\ sub.newParamMap.expected_state = ClusterStateRunning
       THEN ResumeWarehouse(sub.newParamMap.name, AfterSub(UpdateWarehouseSteps, "w_resume"))
       ELSE Skip(AfterSub(UpdateWarehouseSteps, "w_resume"))
    /\ UNCHANGED <<op, old, new, id, whi, sub, runs, edits>>

WarehouseConfigs ==
    /\ pc = "w_configs"
    /\ LET srConfigChanged == sub.oldParamMap.compute_node_configs # sub.newParamMap.compute_node_configs
       IN  IF srConfigChanged
           THEN UpsertClusterConfig(sub.newParamMap.name, sub.newParamMap.compute_node_configs,
                                    AfterSub(UpdateWarehouseSteps, "w_configs"))
           ELSE Skip(AfterSub(UpdateWarehouseSteps, "w_configs"))
    /\ UNCHANGED <<op, old, new, id, whi, sub, runs, edits>>

\* the expected state of a named warehouse changed to suspended
SuspendWanted_OnAnyChange == expectedStateChanged
SuspendWanted ==
    expectedStateChanged /\ sub.newParamMap.expected_state = ClusterStateSuspended

WarehouseSuspend ==
    /\ pc = "w_suspend"
    /\ IF SuspendWanted
       THEN SuspendWarehouse(sub.newParamMap.name, AfterSub(UpdateWarehouseSteps, "w_suspend"))
       ELSE Skip(AfterSub(UpdateWarehouseSteps, "w_suspend"))
    /\ UNCHANGED <<op, old, new, id, whi, sub, runs, edits>>

WarehouseAutoScaling ==
    /\ pc = "w_asp"
    /\ LET o == sub.oldParamMap
           n == sub.newParamMap
           autoScalingPolicyChanged == o.auto_scaling_policy # n.auto_scaling_policy
           next == AfterSub(UpdateWarehouseSteps, "w_asp")
       IN  IF autoScalingPolicyChanged
           THEN \E r \in SyncResults :
                  IF n.auto_scaling_policy # ""
                  THEN LET c == Call("SaveWarehouseAutoScalingConfig", n.name, n.auto_scaling_policy)
                       IN  IF r = "ok" THEN Go(<<c>>, next)
                           ELSE Return(<<c>>, ErrorDiag("Update warehouse auto-scaling configuration failed"))
                  ELSE LET c == Call("DeleteWarehouseAutoScalingConfig", n.name, <<>>)
                       IN  IF r = "ok" THEN Go(<<c>>, next)
                           ELSE Return(<<c>>, WarningDiag("Delete warehouse auto scaling config failed"))
           ELSE Skip(next)
    /\ UNCHANGED <<op, old, new, id, whi, sub, runs, edits>>

(***************************************************************************)
(* createWarehouse                                                         *)
(***************************************************************************)
CreateWarehouseReq(w) ==
    LET v == VolumeOr(w.compute_node_volume_config, DefaultBeVolumeMap)
    IN  [Name |-> w.name,
         VmCate |-> w.compute_node_size,
         VmNum |-> w.compute_node_count,
         VolumeSizeGB |-> v.vol_size,
         VolumeNum |-> v.vol_number,
         Iops |-> v.iops,
         DistributionPolicy |-> w.distribution_policy,
         SpecifyAZ |-> w.specify_az]

NewWarehouse ==
    /\ pc = "c_create"
    /\ LET w == sub.newParamMap
           next == AfterSub(CreateWarehouseSteps, "c_create")
       IN  \E r \in OptAsyncResults({ClusterStateRunning, ClusterStateAbnormal}) :
             LET es == Issued(Call("CreateWarehouse", w.name, CreateWarehouseReq(w)),
                              "WaitClusterStateChangeComplete", TransientStates,
                              {ClusterStateRunning, ClusterStateAbnormal}, r)
             IN  IF r \in {"no_action", ClusterStateRunning}
                 THEN Step(es, next, diags, cstate, (w.name :> ClusterStateRunning) @@ wstate)
                 ELSE IF r = ClusterStateAbnormal
                 THEN SubReturn(es, ErrorDiag(AbnormalReason))
                 ELSE SubReturn(es, ErrorDiag("create warehouse failed"))
    /\ UNCHANGED <<op, old, new, id, whi, sub, runs, edits>>

\* setWarehouseAutoScalingPolicy: nothing is saved for an empty policy
NewWarehouseAutoScaling ==
    /\ pc = "c_asp"
    /\ LET w == sub.newParamMap
       IN  IF w.auto_scaling_policy # ""
           THEN \E r \in SyncResults :
                  LET c == Call("SaveWarehouseAutoScalingConfig", w.name, w.auto_scaling_policy)
                  IN  IF r = "ok" THEN Go(<<c>>, AfterSub(CreateWarehouseSteps, "c_asp"))
                      ELSE SubReturn(<<c>>, WarningDiag("Config warehouse auto-scaling configuration failed"))
           ELSE Skip(AfterSub(CreateWarehouseSteps, "c_asp"))
    /\ UNCHANGED <<op, old, new, id, whi, sub, runs, edits>>

NewWarehouseConfigs ==
    /\ pc = "c_configs"
    /\ LET w == sub.newParamMap
       IN  IF Cardinality(w.compute_node_configs) > 0
           THEN \E r \in SyncResults :
                  LET c == Call("UpsertClusterConfig", w.name, w.compute_node_configs)
                  IN  IF r = "ok" THEN Go(<<c>>, AfterSub(CreateWarehouseSteps, "c_configs"))
                      ELSE SubReturn(<<c>>, WarningDiag("upsert config failed"))
           ELSE Skip(AfterSub(CreateWarehouseSteps, "c_configs"))
    /\ UNCHANGED <<op, old, new, id, whi, sub, runs, edits>>

\* fmt.Sprintf("%s. errMsg:%s", summary, stateResp.AbnormalReason)
SuspendAbnormalDetail == "suspend warehouse failed. errMsg:abnormal reason"

NewWarehouseSuspend ==
    /\ pc = "c_suspend"
    /\ LET w == sub.newParamMap
           next == AfterSub(CreateWarehouseSteps, "c_suspend")
       IN  IF w.expected_state = ClusterStateSuspended
           THEN \E r \in OptAsyncResults({ClusterStateSuspended, ClusterStateAbnormal}) :
                  LET es == Issued(Call("SuspendWarehouse", w.name, <<>>),
                                   "WaitClusterStateChangeComplete", TransientStates,
                                   {ClusterStateSuspended, ClusterStateAbnormal}, r)
                  IN  IF r \in {"no_action", ClusterStateSuspended}
                      THEN Step(es, next, diags, cstate, [wstate EXCEPT ![w.name] = ClusterStateSuspended])
                      ELSE IF r = ClusterStateAbnormal
                      THEN SubReturn(es, Diagnostic("warning", "suspend warehouse failed", SuspendAbnormalDetail))
                      ELSE SubReturn(es, WarningDiag("suspend warehouse failed"))
           ELSE Skip(next)
    /\ UNCHANGED <<op, old, new, id, whi, sub, runs, edits>>

NewWarehouseIdle ==
    /\ pc = "c_idle"
    /\ LET w == sub.newParamMap
       IN  IF w.idle_suspend_interval > 0
           THEN \E r \in SyncResults :
                  LET c == Call("UpdateWarehouseIdleConfig", w.name,
                                [IntervalMs |-> w.idle_suspend_interval * MsPerMinute, State |-> TRUE])
                  IN  IF r = "ok" THEN Go(<<c>>, AfterSub(CreateWarehouseSteps, "c_idle"))
                      ELSE SubReturn(<<c>>, WarningDiag("Config warehouse idle config failed"))
           ELSE Skip(AfterSub(CreateWarehouseSteps, "c_idle"))
    /\ UNCHANGED <<op, old, new, id, whi, sub, runs, edits>>

(***************************************************************************)
(* resourceElasticClusterV2Update, the warehouses.                         *)
(***************************************************************************)
\* oldWhMap[name]: the last entry of the list with that name
Lookup(whs, n) ==
    whs[CHOOSE i \in DOMAIN whs : whs[i].name = n /\ \A j \in DOMAIN whs : whs[j].name = n => j <= i]

\* whExternalInfoMap[whName].(string) of a name without a record panics
Panic == [severity |-> "panic", summary |-> "interface conversion: interface {} is nil, not string"]

UpdateDefaultWarehouse ==
    /\ pc = "u_default_wh"
    /\ IF HasChange("default_warehouse")
       THEN IF DEFAULT_WAREHOUSE_NAME \in DOMAIN new.warehouse_external_info
            THEN /\ sub' = [caller |-> "default",
                            oldParamMap |-> old.default_warehouse,
                            newParamMap |-> new.default_warehouse,
                            whExternalInfo |-> new.warehouse_external_info[DEFAULT_WAREHOUSE_NAME]]
                 /\ Skip(UpdateWarehouseSteps[1])
            ELSE sub' = sub /\ Return(<<>>, Panic)
       ELSE sub' = sub /\ Skip(After(UpdateSteps, "u_default_wh"))
    /\ UNCHANGED <<op, old, new, id, whi, runs, edits>>

\* for _, v := range new: the entry the loop is at
NextNewWarehouse_Reversed == new.warehouse[Len(new.warehouse) - whi]
NextNewWarehouse == new.warehouse[whi + 1]

\* the loop over the new list: an entry whose name is in the old list is
\* updated, any other entry is created
UpdateWarehouses ==
    /\ pc = "u_warehouses"
    /\ IF HasChange("warehouse") /\ whi < Len(new.warehouse)
       THEN LET newWh == NextNewWarehouse
                whName == newWh.name
            IN  /\ whi' = whi + 1
                /\ IF whName \in NamesOf(old.warehouse)
                   THEN IF whName \in DOMAIN new.warehouse_external_info
                        THEN /\ sub' = [caller |-> "modified",
                                        oldParamMap |-> Lookup(old.warehouse, whName),
                                        newParamMap |-> newWh,
                                        whExternalInfo |-> new.warehouse_external_info[whName]]
                             /\ Skip(UpdateWarehouseSteps[1])
                        ELSE sub' = sub /\ Return(<<>>, Panic)
                   ELSE /\ sub' = [caller |-> "added", newParamMap |-> newWh]
                        /\ Skip(CreateWarehouseSteps[1])
       ELSE /\ whi' = 0
            /\ sub' = NoSub
            /\ Skip(After(UpdateSteps, "u_warehouses"))
    /\ UNCHANGED <<op, old, new, id, runs, edits>>

\* DeleteWarehouse
DeleteWarehouse(ent, whId, next) ==
    \E r \in OptAsyncResults({ClusterStateReleased, ClusterStateAbnormal}) :
      LET es == Issued(Call("ReleaseWarehouse", ent, [WarehouseId |-> whId]),
                       "WaitClusterStateChangeComplete",
                       TransientStates \cup {ClusterStateRunning},
                       {ClusterStateReleased, ClusterStateAbnormal}, r)
      IN  IF r \in {"no_action", ClusterStateReleased}
          THEN Step(es, next, diags, cstate, [n \in DOMAIN wstate \ {ent} |-> wstate[n]])
          ELSE IF r = ClusterStateAbnormal
          THEN Return(es, ErrorDiag(AbnormalReason))
          ELSE Return(es, ErrorDiag("release warehouse failed"))

\* _, ok := newWhMap[whName]; !ok
RemovedFromNew_ShorterList(whName) == Len(new.warehouse) < Len(old.warehouse)
RemovedFromNew(whName) == whName \notin NamesOf(new.warehouse)

\* whExternalInfo.Id of the record persisted under the name
PersistedId_Default(whName) == new.warehouse_external_info[DEFAULT_WAREHOUSE_NAME].Id
PersistedId(whName) == new.warehouse_external_info[whName].Id

\* the loop over the old list: an entry whose name is not in the new list
\* is released
UpdateRelease ==
    /\ pc = "u_release"
    /\ IF HasChange("warehouse") /\ whi < Len(old.warehouse)
       THEN LET whName == old.warehouse[whi + 1].name
            IN  /\ whi' = whi + 1
                /\ IF RemovedFromNew(whName)
                   THEN IF whName \in DOMAIN new.warehouse_external_info
                        THEN DeleteWarehouse(whName, PersistedId(whName), "u_release")
                        ELSE Return(<<>>, Panic)
                   ELSE Skip("u_release")
       ELSE /\ whi' = 0
            /\ Skip(After(UpdateSteps, "u_release"))
    /\ UNCHANGED <<op, old, new, id, sub, runs, edits>>

UpdateSuspend ==
    /\ pc = "u_suspend"
    /\ IF needSuspend
       THEN UpdateClusterState(new.expected_cluster_state, After(UpdateSteps, "u_suspend"))
       ELSE Skip(After(UpdateSteps, "u_suspend"))
    /\ UNCHANGED <<op, old, new, id, whi, sub, runs, edits>>

(***************************************************************************)
(* resourceElasticClusterV2Update, the image upgrade.                      *)
(***************************************************************************)
AmiField(c, f) == IF Len(c.custom_ami) = 0 THEN "" ELSE c.custom_ami[1][f]

\* clusterResp.Cluster.Warehouses
NameOrder == <<DEFAULT_WAREHOUSE_NAME, "a", "b", "c", "c ">>
RemoteWarehouseList_NamedOnly ==
    SelectSeq(NameOrder, LAMBDA n : n \in DOMAIN wstate /\ n # DEFAULT_WAREHOUSE_NAME)
RemoteWarehouseList == SelectSeq(NameOrder, LAMBDA n : n \in DOMAIN wstate)

IsAllRunning_WarehousesOnly ==
    \A n \in DOMAIN wstate : wstate[n] = ClusterStateRunning
IsAllRunning ==
    /\ cstate = ClusterStateRunning
    /\ \A n \in DOMAIN wstate : wstate[n] = ClusterStateRunning

UpdateAmi ==
    /\ pc = "u_ami"
    /\ IF HasChange("custom_ami") /\ ~IsNewResource
       THEN IF Len(old.custom_ami) = 0
            THEN Return(<<>>, ErrorDiag("custom ami can only be specified when creating cluster"))
            ELSE IF AmiField(old, "os") # AmiField(new, "os") /\ AmiField(old, "os") # ""
            THEN Return(<<>>, ErrorDiag("custom ami os can not be changed"))
            ELSE IF AmiField(old, "ami") # AmiField(new, "ami")
            THEN \E r \in SyncResults :
                   IF r # "ok" THEN Return(<<Query("Get", "cluster")>>, ErrorDiag("get cluster failed"))
                   ELSE IF ~IsAllRunning
                   THEN Return(<<Query("Get", "cluster")>>,
                               ErrorDiag("custom ami can only be upgraded when the cluster and all warehouse states are running"))
                   ELSE Go(<<Query("Get", "cluster")>>, After(UpdateSteps, "u_ami"))
            ELSE Skip("done")
       ELSE Skip("done")
    /\ UNCHANGED <<op, old, new, id, whi, sub, runs, edits>>

upgradeAMI(ent, next) ==
    InfraCall(Call("UpgradeAMI", ent, [Os |-> AmiField(new, "os"), Ami |-> AmiField(new, "ami")]),
              next, "failed to update custom ami")

UpgradeWarehouses ==
    /\ pc = "u_ami_wh"
    /\ IF whi < Len(RemoteWarehouseList)
       THEN whi' = whi + 1 /\ upgradeAMI(RemoteWarehouseList[whi + 1], "u_ami_wh")
       ELSE whi' = 0 /\ Skip(After(UpdateSteps, "u_ami_wh"))
    /\ UNCHANGED <<op, old, new, id, sub, runs, edits>>

UpgradeCoordinator ==
    /\ pc = "u_ami_fe"
    /\ upgradeAMI("FE", After(UpdateSteps, "u_ami_fe"))
    /\ UNCHANGED <<op, old, new, id, whi, sub, runs, edits>>

(***************************************************************************)
(* resourceElasticClusterV2Create                                          *)
(***************************************************************************)
CreateSteps ==
    <<"cr_network", "cr_deploy", "cr_fe_configs", "cr_wh_configs", "cr_ldap", "cr_ranger",
      "cr_idle", "cr_asp", "cr_warehouses", "cr_suspend", "read", "done">>

\* strings.TrimSpace on the names of the model
TrimSpace(n) ==
    CASE n = "c " -> "c"
      [] n = "default_warehouse " -> "default_warehouse"
      [] OTHER -> n

\* strings.Contains(whName, "-") on the names of the model
ContainsDash(n) == n = "a-b"

\* ValidateFunc of warehouse.name, on the name as it is declared
ValidName(n) == n # "" /\ n # DEFAULT_WAREHOUSE_NAME /\ ~ContainsDash(n)

\* the schema validation of a configuration
SchemaAccepted(c) == \A i \in DOMAIN c.warehouse : ValidName(c.warehouse[i].name)

CreateNetwork ==
    /\ pc = "cr_network"
    /\ \E r \in SyncResults :
         IF r # "ok" THEN Return(<<Query("GetNetwork", "cluster")>>, ErrorDiag("get network failed"))
         ELSE IF MultiAzTooFew(MultiAz(new.network_id), new.coordinator_node_count)
         THEN Return(<<Query("GetNetwork", "cluster")>>,
                     ErrorDiag("in multi-AZ deployment mode, the number of coordinator nodes should be greater than or equal to 3"))
         ELSE Go(<<Query("GetNetwork", "cluster")>>, After(CreateSteps, "cr_network"))
    /\ UNCHANGED <<op, old, new, id, whi, sub, runs, edits>>

coordinatorItem ==
    [Type |-> "FE", Name |-> "FE",
     Num |-> new.coordinator_node_count,
     InstanceType |-> new.coordinator_node_size,
     DiskInfo |-> [Number |-> 1,
                   PerSize |-> VolumeOr(new.coordinator_node_volume_config, DefaultFeVolumeMap).vol_size]]

defaultWarehouseItem ==
    LET w == new.default_warehouse
        v == VolumeOr(w.compute_node_volume_config, DefaultBeVolumeMap)
    IN  [Type |-> "Warehouse", Name |-> DEFAULT_WAREHOUSE_NAME,
         Num |-> w.compute_node_count,
         InstanceType |-> w.compute_node_size,
         DiskInfo |-> [Number |-> v.vol_number, PerSize |-> v.vol_size]]

\* clusterConf.ClusterItems of the deploy request
ClusterItems_AllWarehouses ==
    <<coordinatorItem, defaultWarehouseItem>>
      \o [i \in DOMAIN new.warehouse |->
            [defaultWarehouseItem EXCEPT !.Name = TrimSpace(new.warehouse[i].name)]]
ClusterItems == <<coordinatorItem, defaultWarehouseItem>>

CreateDeploy ==
    /\ pc = "cr_deploy"
    /\ \E r \in AsyncResults({ClusterStateRunning, ClusterStateAbnormal}) :
         LET es == Issued(Call("Deploy", "cluster", [ClusterItems |-> ClusterItems]),
                          "WaitClusterStateChangeComplete", TransientStates,
                          {ClusterStateRunning, ClusterStateAbnormal}, r)
         IN  IF r = "rpc_err"
             THEN id' = id /\ Return(es, ErrorDiag("deploy failed"))
             ELSE IF r = "wait_err"
             THEN id' = ClusterId /\ Return(es, WarningDiag("Operation state not complete"))
             ELSE IF r = ClusterStateAbnormal
             THEN id' = "" /\ Step(es, "done", diags \o <<ErrorDiag(AbnormalReason)>>, r, wstate)
             ELSE /\ id' = ClusterId
                  /\ Step(es, After(CreateSteps, "cr_deploy"), diags, r,
                          (DEFAULT_WAREHOUSE_NAME :> ClusterStateRunning))
    /\ UNCHANGED <<op, old, new, whi, sub, runs, edits>>

\* a synchronous call of create made when the configured value is not empty
SyncOnCreate(label, present, call, d) ==
    /\ pc = label
    /\ IF present
       THEN \E r \in SyncResults :
              IF r = "ok" THEN Go(<<call>>, After(CreateSteps, label))
              ELSE Return(<<call>>, d)
       ELSE Skip(After(CreateSteps, label))
    /\ UNCHANGED <<op, old, new, id, whi, sub, runs, edits>>

CreateFeConfigs ==
    SyncOnCreate("cr_fe_configs", Cardinality(new.coordinator_node_configs) > 0,
                 Call("UpsertClusterConfig", "FE", new.coordinator_node_configs),
                 WarningDiag("upsert config failed"))

CreateWarehouseConfigs ==
    SyncOnCreate("cr_wh_configs", Cardinality(new.default_warehouse.compute_node_configs) > 0,
                 Call("UpsertClusterConfig", DEFAULT_WAREHOUSE_NAME, new.default_warehouse.compute_node_configs),
                 WarningDiag("upsert config failed"))

CreateLdap ==
    SyncOnCreate("cr_ldap", Cardinality(new.ldap_ssl_certs) > 0,
                 Call("UpsertClusterLdapSslCert", "cluster", new.ldap_ssl_certs),
                 WarningDiag("upsert ldap ssl certs failed"))

CreateRanger ==
    SyncOnCreate("cr_ranger", new.ranger_certs_dir # "",
                 Call("UpsertClusterRangerCert", "cluster", new.ranger_certs_dir),
                 WarningDiag("upsert ranger certs failed"))

CreateIdle ==
    SyncOnCreate("cr_idle", new.idle_suspend_interval > 0,
                 Call("UpdateClusterIdleConfig", "cluster",
                      [IntervalMs |-> new.idle_suspend_interval * MsPerMinute, State |-> TRUE]),
                 WarningDiag("config cluster idle config failed"))

CreateAutoScaling ==
    SyncOnCreate("cr_asp", new.default_warehouse.auto_scaling_policy # "",
                 Call("SaveWarehouseAutoScalingConfig", DEFAULT_WAREHOUSE_NAME,
                      new.default_warehouse.auto_scaling_policy),
                 WarningDiag("Config warehouse auto-scaling configuration failed"))

\* the loop over the declared named warehouses, names trimmed
CreateWarehouses ==
    /\ pc = "cr_warehouses"
    /\ IF whi < Len(new.warehouse)
       THEN /\ whi' = whi + 1
            /\ sub' = [caller |-> "create",
                       newParamMap |-> [new.warehouse[whi + 1] EXCEPT !.name = TrimSpace(@)]]
            /\ Skip(CreateWarehouseSteps[1])
       ELSE /\ whi' = 0
            /\ sub' = NoSub
            /\ Skip(After(CreateSteps, "cr_warehouses"))
    /\ UNCHANGED <<op, old, new, id, runs, edits>>

CreateSuspend ==
    /\ pc = "cr_suspend"
    /\ IF new.expected_cluster_state = ClusterStateSuspended
       THEN UpdateClusterState(ClusterStateSuspended, After(CreateSteps, "cr_suspend"))
       ELSE Skip(After(CreateSteps, "cr_suspend"))
    /\ UNCHANGED <<op, old, new, id, whi, sub, runs, edits>>

(***************************************************************************)
(* resourceElasticClusterV2Read, as the read-back that ends create         *)
(***************************************************************************)
\* d.SetId("") when the cluster is released, or when Get does not find it and
\* the resource is not a new one
IdAfterRead_Kept(r) == id
IdAfterRead(r) ==
    IF r = ClusterStateReleased \/ (r = "not_found" /\ ~IsNewResource) THEN "" ELSE id

\* d.Set("warehouse_external_info", ...): one record per warehouse the
\* cluster reports (the instance types of the handlers use no local disk)
ReportedInfo(whs) == [n \in DOMAIN whs |-> ExternalInfo(n)]

Read ==
    /\ pc = "read"
    /\ \E r \in {"wait_err", "not_found", "get_err", cstate, ClusterStateReleased} :
         LET w == Wait("WaitClusterStateChangeComplete", "cluster", TransientStates,
                       QuiescentStates,
                       CASE r = "wait_err" -> "error"
                         [] r \in {"not_found", "get_err"} -> cstate
                         [] OTHER -> r)
             get == Query("Get", "cluster")
         IN  /\ id' = IdAfterRead(r)
             /\ new' = IF r \in {"wait_err", "not_found", "get_err", ClusterStateReleased} THEN new
                       ELSE [new EXCEPT !.warehouse_external_info = ReportedInfo(wstate)]
             /\ IF r = "wait_err" THEN Return(<<w>>, ErrorDiag("waiting for cluster change complete"))
                ELSE IF r = ClusterStateReleased THEN Step(<<w>>, "done", diags, r, [x \in {} |-> x])
                ELSE IF r = "not_found"
                THEN IF ~IsNewResource THEN Go(<<w, get>>, "done")
                     ELSE Return(<<w, get>>, ErrorDiag(ErrText))
                ELSE IF r = "get_err" THEN Return(<<w, get>>, ErrorDiag("get cluster failed"))
                ELSE Go(<<w, get>>, "done")
    /\ UNCHANGED <<op, old, whi, sub, runs, edits>>

(***************************************************************************)
(* resourceElasticClusterV2Delete                                          *)
(***************************************************************************)
DeleteSteps_ReleaseFirst == <<"d_release", "d_wait", "done">>
DeleteSteps == <<"d_wait", "d_release", "done">>

\* the wait for a quiescent cluster; only its error is looked at
DeleteWait ==
    /\ pc = "d_wait"
    /\ \E r \in {"wait_err", cstate, ClusterStateAbnormal, ClusterStateReleased} :
         LET w == Wait("WaitClusterStateChangeComplete", "cluster", TransientStates,
                       QuiescentStates, IF r = "wait_err" THEN "error" ELSE r)
         IN  IF r = "wait_err"
             THEN Return(<<w>>, ErrorDiag("waiting for Cluster delete"))
             ELSE Step(<<w>>, After(DeleteSteps, "d_wait"), diags, r, wstate)
    /\ UNCHANGED <<op, old, new, id, whi, sub, runs, edits>>

\* fmt.Errorf("release cluster failed: %s, we have ...", AbnormalReason)
ReleaseAbnormalMessage ==
    "release cluster failed: abnormal reason, we have successfully released your cluster, but cloud resources may not be released. Please release cloud resources manually according to the email"

\* d.SetId("") after the awaited release reached a target state
IdAfterRelease(r) == IF r \in {ClusterStateReleased, ClusterStateAbnormal} THEN "" ELSE id

DeleteRelease ==
    /\ pc = "d_release"
    /\ \E r \in AsyncResults({ClusterStateReleased, ClusterStateAbnormal}) :
         LET es == Issued(Call("Release", "cluster", [ClusterID |-> id]),
                          "WaitClusterStateChangeComplete",
                          {ClusterStateReleasing, ClusterStateRunning, ClusterStateSuspended,
                           ClusterStateAbnormal, ClusterStateUpdating},
                          {ClusterStateReleased, ClusterStateAbnormal}, r)
         IN  /\ id' = IdAfterRelease(r)
             /\ IF r = "rpc_err" THEN Return(es, ErrorDiag(ErrText))
                ELSE IF r = "wait_err" THEN Return(es, ErrorDiag("waiting for Cluster delete"))
                ELSE IF r = ClusterStateAbnormal
                THEN Step(es, "done", diags \o <<ErrorDiag(ReleaseAbnormalMessage)>>, r, wstate)
                ELSE Step(es, "done", diags, r, [x \in {} |-> x])
    /\ UNCHANGED <<op, old, new, whi, sub, runs, edits>>

(***************************************************************************)
(* customizeEl2Diff: the plans the handlers are called with                *)
(***************************************************************************)
VmInfo(cate) ==
    CASE cate \in {"m1", "m2"} -> [Arch |-> "x86", IsInstanceStore |-> FALSE]
      [] cate = "a1" -> [Arch |-> "arm", IsInstanceStore |-> FALSE]
      [] cate = "i1" -> [Arch |-> "x86", IsInstanceStore |-> TRUE]
      [] OTHER -> [Arch |-> "", IsInstanceStore |-> FALSE]

VmInfoExists(cate) == cate \in {"m1", "m2", "a1", "i1"}

\* vmCateInfoResp.VmInfo.Arch != feArch
ArchDiffers_Never(whArch, feArch) == FALSE
ArchDiffers(whArch, feArch) == whArch # feArch

\* the validation of a warehouse list n against the coordinator's architecture
\* and the persisted disk types; "" when it passes
RECURSIVE WarehousesDiff(_, _, _, _)
WarehousesDiff(whs, i, feArch, info) ==
    IF i > Len(whs)
    THEN IF \E j \in DOMAIN whs :
              /\ TrimSpace(whs[j].name) \in DOMAIN info
              /\ info[TrimSpace(whs[j].name)].IsInstanceStore # VmInfo(whs[j].compute_node_size).IsInstanceStore
         THEN "the disk type of the warehouse must be the same as the previous disk type"
         ELSE ""
    ELSE IF ~VmInfoExists(whs[i].compute_node_size) THEN "vm info not exists"
    ELSE IF ArchDiffers(VmInfo(whs[i].compute_node_size).Arch, feArch)
    THEN "the vm instance architecture of the warehouse must be the same as the coordinator node"
    ELSE IF VmInfo(whs[i].compute_node_size).IsInstanceStore /\ Len(whs[i].compute_node_volume_config) > 0
    THEN "the vm instance type of the warehouse does not support specifying the volume config of disks"
    ELSE WarehousesDiff(whs, i + 1, feArch, info)

\* len(clusterId) > 0: the records of warehouse_external_info are compared
PersistedDiskTypes_None(n, clusterId) == [x \in {} |-> x]
PersistedDiskTypes(n, clusterId) ==
    IF clusterId # "" THEN n.warehouse_external_info ELSE [x \in {} |-> x]

\* countMap[whName] > 1 for some name of the list
Repeated_Never(names) == FALSE
Repeated(names) == \E i, j \in DOMAIN names : i # j /\ names[i] = names[j]

\* vMap["distribution_policy"] != SPECIFY_AZ && len(vMap["specify_az"]) > 0
SpecifyAzMisused_Never(w) == FALSE
SpecifyAzMisused(w) == w.distribution_policy # SPECIFY_AZ /\ w.specify_az # ""

customizeEl2Diff(o, n, clusterId) ==
    LET isNewResource == clusterId = ""
        feArch == VmInfo(n.coordinator_node_size).Arch
        warehouses == <<n.default_warehouse>> \o n.warehouse
        info == PersistedDiskTypes(n, clusterId)
        names == [i \in DOMAIN n.warehouse |-> TrimSpace(n.warehouse[i].name)]
    IN  IF ~VmInfoExists(n.coordinator_node_size) THEN "vm info not exists"
        ELSE IF n.network_id # "" /\ MultiAzTooFew(MultiAz(n.network_id), n.coordinator_node_count)
        THEN "in multi-AZ deployment mode, the number of coordinator nodes should be greater than or equal to 3"
        ELSE IF \E i \in DOMAIN warehouses : SpecifyAzMisused(warehouses[i])
        THEN "specify_az parameter only takes effect when the distribution_policy value is specify_az"
        ELSE IF o.coordinator_node_size # n.coordinator_node_size /\ ~isNewResource
                /\ ~VmInfoExists(o.coordinator_node_size)
        THEN "vm info not exists"
        ELSE IF o.coordinator_node_size # n.coordinator_node_size /\ ~isNewResource
                /\ feArch # VmInfo(o.coordinator_node_size).Arch
        THEN "the vm instance architecture can not be changed"
        ELSE IF o.coordinator_node_volume_config # n.coordinator_node_volume_config /\ ~isNewResource
                /\ VolumeOr(n.coordinator_node_volume_config, DefaultFeVolumeMap).vol_size
                   < VolumeOr(o.coordinator_node_volume_config, DefaultFeVolumeMap).vol_size
        THEN "the coordinator node vol_size does not support decrease"
        ELSE IF o.default_warehouse # n.default_warehouse
                /\ WarehousesDiff(<<n.default_warehouse>>, 1, feArch, info) # ""
        THEN WarehousesDiff(<<n.default_warehouse>>, 1, feArch, info)
        ELSE IF o.warehouse # n.warehouse /\ Repeated(names)
        THEN "only one warehouse with that name is allowed"
        ELSE IF o.warehouse # n.warehouse
        THEN WarehousesDiff(n.warehouse, 1, feArch, info)
        ELSE ""

\* custom_ami is optional and computed: a plan never drops it
PlanAccepted(o, n, clusterId) ==
    /\ customizeEl2Diff(o, n, clusterId) = ""
    /\ (Len(n.custom_ami) = 0 => Len(o.custom_ami) = 0)

(***************************************************************************)
(* The specification.                                                      *)
(***************************************************************************)
\* the prior state of a resource that does not exist yet
NoState ==
    [State(FALSE, 0, "", <<>>, <<>>) EXCEPT
        !.coordinator_node_size = "", !.coordinator_node_count = 0,
        !.default_warehouse = [Warehouse("", 0, "") EXCEPT !.compute_node_size = "",
                                                            !.compute_node_count = 0,
                                                            !.distribution_policy = ""],
        !.warehouse_external_info = [x \in {} |-> x],
        !.csp = "", !.region = "", !.cluster_name = "", !.default_admin_password = "",
        !.data_credential_id = "", !.deployment_credential_id = "", !.network_id = "",
        !.query_port = 0]

\* before the handler runs the configuration is edited, at most MaxEdits
\* times, starting from the persisted state or from a first configuration
Init ==
    /\ \/ op = "update" /\ old \in OldStates /\ new = old /\ id = ClusterId
          /\ cstate = old.expected_cluster_state /\ wstate = RemoteWarehouses(old)
       \/ op = "create" /\ old = NoState /\ new \in CreateBases /\ id = ""
          /\ cstate = "none" /\ wstate = [x \in {} |-> x]
       \/ op = "delete" /\ old \in OldStates /\ new = old /\ id = ClusterId
          /\ cstate = old.expected_cluster_state /\ wstate = RemoteWarehouses(old)
       \/ op = "read" /\ old \in OldStates /\ new = old /\ id = ClusterId
          /\ cstate = old.expected_cluster_state /\ wstate = RemoteWarehouses(old)
    /\ pc = CASE op = "delete" -> DeleteSteps[1] [] op = "read" -> "read" [] OTHER -> "plan"
    /\ edits = 0
    /\ log = <<>>
    /\ diags = <<>>
    /\ whi = 0
    /\ sub = NoSub
    /\ runs = 1

Edit ==
    /\ pc = "plan"
    /\ edits < MaxEdits
    /\ \E c \in ConfEdits(new) : c # new /\ new' = c
    /\ edits' = edits + 1
    /\ UNCHANGED <<op, pc, old, id, log, diags, whi, sub, cstate, wstate, runs>>

\* the handler is called with a plan that the schema and customizeEl2Diff
\* accepted
Apply ==
    /\ pc = "plan"
    /\ SchemaAccepted(new)
    /\ PlanAccepted(old, new, id)
    /\ pc' = IF op = "create" THEN CreateSteps[1] ELSE UpdateSteps[1]
    /\ edits' = 0
    /\ UNCHANGED <<op, old, new, id, log, diags, whi, sub, cstate, wstate, runs>>

HasError == \E i \in DOMAIN diags : diags[i].severity # "warning"

\* the plan of an update that returned no error becomes the state; the same
\* configuration is applied again
Reapply ==
    /\ pc = "done"
    /\ op = "update"
    /\ ~HasError
    /\ runs < MaxRuns
    /\ old' = new
    /\ pc' = UpdateSteps[1]
    /\ log' = <<>>
    /\ diags' = <<>>
    /\ whi' = 0
    /\ sub' = NoSub
    /\ runs' = runs + 1
    /\ UNCHANGED <<op, new, id, cstate, wstate, edits>>

Next ==
    \/ Edit \/ Apply
    \/ UpdateImmutable \/ UpdateWait \/ UpdateIdle \/ UpdateResume
    \/ UpdateLdap \/ UpdateTags \/ UpdateScripts \/ UpdateRanger \/ UpdateUnlock
    \/ UpdateFeSize \/ UpdateFeCount \/ UpdateFeVolume \/ UpdateFeConfigs
    \/ UpdateDefaultWarehouse \/ UpdateWarehouses \/ UpdateRelease \/ UpdateSuspend
    \/ UpdateAmi \/ UpgradeWarehouses \/ UpgradeCoordinator
    \/ WarehouseDistribution \/ WarehouseSize \/ WarehouseCount \/ WarehouseVolume
    \/ WarehouseIdle \/ WarehouseResume \/ WarehouseConfigs \/ WarehouseSuspend
    \/ WarehouseAutoScaling
    \/ NewWarehouse \/ NewWarehouseAutoScaling \/ NewWarehouseConfigs
    \/ NewWarehouseSuspend \/ NewWarehouseIdle
    \/ CreateNetwork \/ CreateDeploy \/ CreateFeConfigs \/ CreateWarehouseConfigs
    \/ CreateLdap \/ CreateRanger \/ CreateIdle \/ CreateAutoScaling
    \/ CreateWarehouses \/ CreateSuspend \/ Read
    \/ DeleteWait \/ DeleteRelease
    \/ Reapply

Spec == Init /\ [][Next]_vars

(***************************************************************************)
(* updateWarehouse on its own, over every pair of an old and a new         *)
(* warehouse record.                                                       *)
(***************************************************************************)
WarehouseRecords(o, named) ==
    {[name |-> o.name,
      compute_node_size |-> sz,
      compute_node_count |-> cnt,
      distribution_policy |-> dp[1],
      specify_az |-> dp[2],
      compute_node_volume_config |-> vol,
      idle_suspend_interval |-> idle,
      expected_state |-> st,
      compute_node_configs |-> cfg,
      auto_scaling_policy |-> asp] :
        sz \in VmCates, cnt \in WhCounts, dp \in Distributions, vol \in WhVolumes,
        idle \in (IF named THEN IdleIntervals ELSE {o.idle_suspend_interval}),
        st \in (IF named THEN ExpectedStates ELSE {o.expected_state}),
        cfg \in ConfigMaps, asp \in Policies}

InitWarehouse ==
    /\ op = "update"
    /\ old = PaidCluster
    /\ new = PaidCluster
    /\ id = ClusterId
    /\ cstate = ClusterStateRunning
    /\ \E o \in {Warehouse("a", 30, ClusterStateRunning), Warehouse("a", 0, ClusterStateSuspended),
                  Warehouse(DEFAULT_WAREHOUSE_NAME, 0, ClusterStateRunning)} :
         \E n \in WarehouseRecords(o, o.name # DEFAULT_WAREHOUSE_NAME) :
           /\ sub = [caller |-> "direct", oldParamMap |-> o, newParamMap |-> n,
                     whExternalInfo |-> ExternalInfo(o.name)]
           /\ wstate = [x \in {DEFAULT_WAREHOUSE_NAME, "a"} |->
                           IF x = o.name THEN o.expected_state ELSE ClusterStateRunning]
    /\ pc = UpdateWarehouseSteps[1]
    /\ edits = 0
    /\ log = <<>>
    /\ diags = <<>>
    /\ whi = 0
    /\ runs = 1

NextWarehouse ==
    \/ WarehouseDistribution \/ WarehouseSize \/ WarehouseCount \/ WarehouseVolume
    \/ WarehouseIdle \/ WarehouseResume \/ WarehouseConfigs \/ WarehouseSuspend
    \/ WarehouseAutoScaling

SpecWarehouse == InitWarehouse /\ [][NextWarehouse]_vars

(***************************************************************************)
(* Create over the names a configuration can declare: the reserved name,   *)
(* the reserved name followed by a space, a name with '-', the empty name. *)
(***************************************************************************)
DeclaredNames == Names \cup {"c", "default_warehouse", "default_warehouse ", "a-b", ""}

InitNames == Init /\ op = "create"

\* a named warehouse is declared, under a name of the list or a new one
Declare ==
    /\ pc = "plan"
    /\ edits < MaxEdits
    /\ \E n \in DeclaredNames :
         new' = [new EXCEPT !.warehouse = @ \o <<Warehouse(n, 0, ClusterStateRunning)>>]
    /\ edits' = edits + 1
    /\ UNCHANGED <<op, pc, old, id, log, diags, whi, sub, cstate, wstate, runs>>

\* a configuration the schema or customizeEl2Diff rejects: no handler runs
Reject ==
    /\ pc = "plan"
    /\ ~(SchemaAccepted(new) /\ PlanAccepted(old, new, id))
    /\ pc' = "done"
    /\ diags' = <<ErrorDiag("invalid configuration")>>
    /\ UNCHANGED <<op, old, new, id, log, whi, sub, cstate, wstate, runs, edits>>

NextNames ==
    \/ Declare \/ Reject \/ Apply
    \/ CreateNetwork \/ CreateDeploy \/ CreateFeConfigs \/ CreateWarehouseConfigs
    \/ CreateLdap \/ CreateRanger \/ CreateIdle \/ CreateAutoScaling
    \/ CreateWarehouses \/ CreateSuspend \/ Read
    \/ NewWarehouse \/ NewWarehouseAutoScaling \/ NewWarehouseConfigs
    \/ NewWarehouseSuspend \/ NewWarehouseIdle

SpecNames == InitNames /\ [][NextNames]_vars

(***************************************************************************)
(* The validations on their own: customizeEl2Diff on every plan, and the   *)
(* first step of create on every configuration, accepted or not.           *)
(***************************************************************************)
\* the verdict of customizeEl2Diff on the plan
Validate ==
    /\ pc = "plan"
    /\ pc' = "validated"
    /\ diags' = IF customizeEl2Diff(old, new, id) = "" THEN <<>>
                ELSE <<ErrorDiag(customizeEl2Diff(old, new, id))>>
    /\ UNCHANGED <<op, old, new, id, log, whi, sub, cstate, wstate, runs, edits>>

\* resourceElasticClusterV2Create entered with the configuration as it is
CreateUnvalidated ==
    /\ pc = "plan"
    /\ op = "create"
    /\ pc' = CreateSteps[1]
    /\ UNCHANGED <<op, old, new, id, log, diags, whi, sub, cstate, wstate, runs, edits>>

\* the instance types of the validations: x86, arm and local-disk types, and
\* a type the provider does not know
AllVmCates == {"m1", "m2", "a1", "i1", "zz"}

\* an edit of an instance type
EditSize ==
    /\ pc = "plan"
    /\ edits < MaxEdits
    /\ \E v \in AllVmCates :
         \E c \in {[new EXCEPT !.coordinator_node_size = v],
                    [new EXCEPT !.default_warehouse.compute_node_size = v]}
                   \cup {[new EXCEPT !.warehouse[i].compute_node_size = v] : i \in DOMAIN new.warehouse} :
           c # new /\ new' = c
    /\ edits' = edits + 1
    /\ UNCHANGED <<op, pc, old, id, log, diags, whi, sub, cstate, wstate, runs>>

\* an edit that names a zone for a warehouse spread over the zones
EditAz ==
    /\ pc = "plan"
    /\ edits < MaxEdits
    /\ \E c \in {[new EXCEPT !.default_warehouse.distribution_policy = CROSSING_AZ,
                              !.default_warehouse.specify_az = "az1"]}
                 \cup {[new EXCEPT !.warehouse[i].distribution_policy = CROSSING_AZ,
                                   !.warehouse[i].specify_az = "az1"] : i \in DOMAIN new.warehouse} :
         c # new /\ new' = c
    /\ edits' = edits + 1
    /\ UNCHANGED <<op, pc, old, id, log, diags, whi, sub, cstate, wstate, runs>>

\* v.Id of the warehouse the cluster reports under the name n once the plan c
\* is applied to the state o: the default warehouse and a named warehouse of
\* both lists are the warehouses they were, a warehouse the update created is
\* a new one
WarehouseIdAfter_Fresh(o, c, n, gen) == <<"wh", n, gen>>
WarehouseIdAfter(o, c, n, gen) ==
    IF /\ n \in DOMAIN o.warehouse_external_info
       /\ \/ n = DEFAULT_WAREHOUSE_NAME
          \/ \E i \in DOMAIN o.warehouse : \E j \in DOMAIN c.warehouse :
                o.warehouse[i].name = c.warehouse[j].name /\ TrimSpace(c.warehouse[j].name) = n
    THEN o.warehouse_external_info[n].Id
    ELSE <<"wh", n, gen>>

\* warehouse_external_info as the read sets it once the plan is applied: one
\* record per warehouse of the cluster, with the disk type of its instances
RefreshedInfo(o, c, gen) ==
    [n \in {DEFAULT_WAREHOUSE_NAME} \cup {TrimSpace(c.warehouse[i].name) : i \in DOMAIN c.warehouse} |->
        LET w == IF n = DEFAULT_WAREHOUSE_NAME THEN c.default_warehouse
                 ELSE c.warehouse[CHOOSE i \in DOMAIN c.warehouse : TrimSpace(c.warehouse[i].name) = n]
        IN  [Id |-> WarehouseIdAfter(o, c, n, gen),
             IsDefaultWarehouse |-> (n = DEFAULT_WAREHOUSE_NAME),
             IsInstanceStore |-> VmInfo(w.compute_node_size).IsInstanceStore]]

\* the accepted plan is applied and becomes the state the next plan starts from
Persist ==
    /\ pc = "validated"
    /\ diags = <<>>
    /\ SchemaAccepted(new)
    /\ PlanAccepted(old, new, id)
    /\ runs < MaxRuns
    /\ old' = [new EXCEPT !.warehouse_external_info = RefreshedInfo(old, new, runs)]
    /\ new' = old'
    /\ op' = "update"
    /\ id' = ClusterId
    /\ pc' = "plan"
    /\ runs' = runs + 1
    /\ UNCHANGED <<log, diags, whi, sub, cstate, wstate, edits>>

NextValidation ==
    Edit \/ EditSize \/ EditAz \/ Declare \/ Validate \/ Persist \/ CreateUnvalidated \/ CreateNetwork

SpecValidation == Init /\ [][NextValidation]_vars

(***************************************************************************)
(* WaitClusterStateChangeComplete on its own: one wait, poll by poll. The  *)
(* variables are used as follows: sub is the request, log the states the   *)
(* polls observed, whi the number of polls, edits the poll intervals that  *)
(* elapsed, cstate the state reported, diags the error returned.           *)
(***************************************************************************)
\* the states a poll can observe
PollStates ==
    {ClusterStateDeploying, ClusterStateScaling, ClusterStateRunning, ClusterStateSuspended,
     ClusterStateAbnormal}

\* the (pending, target) pairs of the waits of the handlers
WaitRequests ==
    {[pendingStates |-> p[1], targetStates |-> p[2], timeout |-> t] :
        p \in {<<TransientStates, QuiescentStates>>,
                <<TransientStates, {ClusterStateRunning, ClusterStateAbnormal}>>,
                <<{ClusterStateScaling}, {ClusterStateRunning, ClusterStateAbnormal}>>,
                <<TransientStates \cup {ClusterStateRunning},
                  {ClusterStateSuspended, ClusterStateAbnormal}>>},
        t \in 1..MaxPolls}

\* the observed state ends the wait
PollEnds_NotPending(s, req) == s \notin req.pendingStates
PollEnds(s, req) == s \in req.targetStates

InitPoller ==
    /\ op = "wait"
    /\ pc = "poll"
    /\ sub \in WaitRequests
    /\ log = <<>>
    /\ whi = 0
    /\ edits = 0
    /\ cstate = "none"
    /\ diags = <<>>
    /\ old = NoState
    /\ new = NoState
    /\ id = ClusterId
    /\ wstate = [x \in {} |-> x]
    /\ runs = 1

\* one poll: the query fails, or it observes a state
Poll ==
    /\ pc = "poll"
    /\ edits < sub.timeout
    /\ whi' = whi + 1
    /\ edits' = edits + 1
    /\ \E s \in PollStates \cup {"rpc_err"} :
         /\ log' = Append(log, s)
         /\ IF s = "rpc_err"
            THEN pc' = "done" /\ diags' = <<ErrorDiag(ErrText)>> /\ cstate' = cstate
            ELSE IF PollEnds(s, sub)
            THEN pc' = "done" /\ diags' = diags /\ cstate' = s
            ELSE pc' = "poll" /\ diags' = diags /\ cstate' = cstate
    /\ UNCHANGED <<op, old, new, id, sub, wstate, runs>>

\* the timeout elapsed before a target state was observed
PollTimeout ==
    /\ pc = "poll"
    /\ edits >= sub.timeout
    /\ pc' = "done"
    /\ diags' = <<ErrorDiag("timeout while waiting for state")>>
    /\ UNCHANGED <<op, old, new, id, log, whi, sub, cstate, wstate, runs, edits>>

NextPoller == Poll \/ PollTimeout

SpecPoller == InitPoller /\ [][NextPoller]_vars

(***************************************************************************)
(* Properties of the sequence of remote calls.                             *)
(***************************************************************************)
\* the group of an update's fixed order that a mutating call belongs to
CallGroup(e) ==
    CASE e.op = "UpdateClusterIdleConfig" -> 1
      [] e.op = "Resume" -> 2
      [] e.op \in {"UpsertClusterLdapSslCert", "UpdateResourceTags",
                   "UpdateDeploymentScripts", "UpsertClusterRangerCert"} -> 3
      [] e.op = "UnlockFreeTier" -> 4
      [] e.op = "ScaleUp" -> 5
      [] e.op \in {"ScaleOut", "ScaleIn"} -> 6
      [] e.op = "ModifyClusterVolume" /\ e.ent = "FE" -> 7
      [] e.op = "UpsertClusterConfig" /\ e.ent = "FE" -> 8
      [] e.op = "Suspend" -> 11
      [] e.op = "UpgradeAMI" -> 12
      [] OTHER -> IF e.ent = DEFAULT_WAREHOUSE_NAME THEN 9 ELSE 10

\* a call of updateWarehouse or createWarehouse on a named warehouse
NamedWarehouseCall(e) ==
    e.kind = "call" /\ CallGroup(e) = 10 /\ e.op # "ReleaseWarehouse"

\* the calls that change the shape of an entity
StructuralOps ==
    {"ScaleUp", "ScaleOut", "ScaleIn", "ModifyClusterVolume", "ChangeWarehouseDistribution",
     "ScaleWarehouseSize", "ScaleWarehouseNum"}

\* the wait that follows the call at position p ended in state st
AwaitedAt(p, st) ==
    /\ p + 1 \in DOMAIN log
    /\ log[p + 1].kind = "wait"
    /\ log[p + 1].ent = log[p].ent
    /\ log[p + 1].arg.result = st

\* C1: the mutating calls of an update are issued in the fixed order of their
\* groups: idle policy, cluster resume, certificates/tags/init scripts,
\* free-tier unlock, coordinator size, coordinator count, coordinator volume,
\* coordinator configuration, default warehouse, named warehouses, cluster
\* suspend, image upgrade.
UpdateGroupOrder ==
    op = "update" =>
      LET m == Mutations(log)
      IN  \A i, j \in DOMAIN m : i < j => CallGroup(m[i]) <= CallGroup(m[j])

UpdateGroupOrderWitness ==
    /\ op = "update"
    /\ pc = "done"
    /\ LET m == Mutations(log)
       IN  \E i, j \in DOMAIN m : i < j /\ CallGroup(m[i]) = 2 /\ CallGroup(m[j]) >= 5

\* C2: an update that is rejected for a violated precondition (an immutable
\* field, a warehouse vol_number change, a warehouse vol_size decrease, a
\* custom_ami rule) has issued no mutating call.
PreconditionErrors ==
    {"field is not allowed to be modified",
     "the compute node vol_number is not allowed to be modified",
     "the compute node vol_size does not support decrease",
     "custom ami can only be specified when creating cluster",
     "custom ami os can not be changed",
     "custom ami can only be upgraded when the cluster and all warehouse states are running"}

RejectionBeforeMutation ==
    (/\ op = "update"
     /\ pc = "done"
     /\ \E i \in DOMAIN diags : diags[i].summary \in PreconditionErrors)
    => Mutations(log) = <<>>

\* the fields whose difference a mutating call of an update answers to
ChangedFor(e) ==
    CASE e.op = "UpdateClusterIdleConfig" -> HasChange("idle_suspend_interval")
      [] e.op \in {"Resume", "Suspend"} -> HasChange("expected_cluster_state")
      [] e.op = "UpsertClusterLdapSslCert" -> HasChange("ldap_ssl_certs")
      [] e.op = "UpdateResourceTags" -> HasChange("resource_tags")
      [] e.op = "UpdateDeploymentScripts" -> HasChange("init_scripts")
      [] e.op = "UpsertClusterRangerCert" -> HasChange("ranger_certs_dir")
      [] e.op = "UnlockFreeTier" ->
           \/ HasChange("coordinator_node_size") \/ HasChange("coordinator_node_count")
           \/ HasChange("warehouse") \/ HasChange("default_warehouse")
      [] e.op = "ScaleUp" -> HasChange("coordinator_node_size")
      [] e.op \in {"ScaleOut", "ScaleIn"} -> HasChange("coordinator_node_count")
      [] e.op = "UpgradeAMI" -> HasChange("custom_ami")
      [] OTHER ->
           IF e.ent = "FE"
           THEN IF e.op = "ModifyClusterVolume" THEN HasChange("coordinator_node_volume_config")
                ELSE HasChange("coordinator_node_configs")
           ELSE IF e.ent = DEFAULT_WAREHOUSE_NAME THEN HasChange("default_warehouse")
           ELSE HasChange("warehouse")

\* C3: an update applied a second time with the same desired state and no
\* drift issues no mutating call, and every mutating call of an update is
\* issued only when the field it answers to differs between state and plan.
NoChangeNoCall ==
    op = "update" =>
      /\ runs > 1 => Mutations(log) = <<>>
      /\ \A p \in DOMAIN log : log[p].kind = "call" => ChangedFor(log[p])

NoChangeNoCallWitness ==
    /\ op = "update"
    /\ runs = 2
    /\ pc = "done"
    /\ diags = <<>>
    /\ old \notin OldStates

\* C4: a ReleaseWarehouse of a removed warehouse is issued only after every
\* call of updateWarehouse and createWarehouse of the same update.
ReleaseAfterUpdateAndCreate ==
    op = "update" =>
      \A i, j \in DOMAIN log :
        (log[i].kind = "call" /\ log[i].op = "ReleaseWarehouse" /\ NamedWarehouseCall(log[j]))
        => j < i

ReleaseAfterUpdateAndCreateWitness ==
    /\ op = "update"
    /\ \E i, j \in DOMAIN log :
         /\ j < i
         /\ log[i].kind = "call" /\ log[i].op = "ReleaseWarehouse"
         /\ log[j].kind = "call" /\ log[j].op = "CreateWarehouse"

\* C5 as stated: every call that updates an existing named warehouse is
\* issued before any CreateWarehouse of an added one.
UpdatesBeforeCreates ==
    op = "update" =>
      \A i, j \in DOMAIN log :
        (/\ log[i].kind = "call" /\ log[i].op = "CreateWarehouse"
         /\ NamedWarehouseCall(log[j]) /\ log[j].ent \in NamesOf(old.warehouse))
        => j < i

\* the position of a named warehouse in the new list
NewListPosition(n) == CHOOSE k \in DOMAIN new.warehouse : new.warehouse[k].name = n

\* C5: the calls that update existing named warehouses and create added ones
\* are issued warehouse by warehouse in the order of the new list, so an
\* added warehouse listed before an existing one is created before that one
\* is updated.
UpdatesAndCreatesInListOrder ==
    op = "update" =>
      \A i, j \in DOMAIN log :
        (i < j /\ NamedWarehouseCall(log[i]) /\ NamedWarehouseCall(log[j]))
        => NewListPosition(log[i].ent) <= NewListPosition(log[j].ent)

UpdatesAndCreatesInListOrderWitness ==
    /\ op = "update"
    /\ \E i, j \in DOMAIN log :
         /\ i < j
         /\ log[i].kind = "call" /\ log[i].op = "CreateWarehouse"
         /\ NamedWarehouseCall(log[j]) /\ log[j].ent \in NamesOf(old.warehouse)

\* C6: when a create or an update suspends the cluster for
\* expected_cluster_state = suspended, the Suspend is the last mutating call
\* of that create or update.
SuspendIsLast ==
    LET m == Mutations(log)
    IN  \A i \in DOMAIN m : m[i].op = "Suspend" => i = Len(m)

SuspendIsLastWitness ==
    /\ op = "update"
    /\ pc = "done"
    /\ HasChange("custom_ami")
    /\ cstate = ClusterStateSuspended
    /\ LET m == Mutations(log)
       IN  m # <<>> /\ m[Len(m)].op = "Suspend"

\* C7 as stated: a resume of the cluster or of a named warehouse is issued and
\* awaited before every structural mutation of that entity in the same update.
ResumeBeforeStructural ==
    op = "update" =>
      \A i, j \in DOMAIN log :
        (/\ log[i].kind = "call" /\ log[i].op \in {"Resume", "ResumeWarehouse"}
         /\ log[j].kind = "call" /\ log[j].op \in StructuralOps
         /\ (log[i].op = "ResumeWarehouse" => log[j].ent = log[i].ent))
        => i < j /\ AwaitedAt(i, ClusterStateRunning)

\* C7: the resume of the cluster is issued and awaited before every structural
\* mutation of the update; the resume of a named warehouse is issued after
\* the structural mutations of that warehouse (distribution, size, count,
\* volume) and before the upsert of its configuration.
ResumeOrder ==
    op = "update" =>
      \A i, j \in DOMAIN log :
        /\ (/\ log[i].kind = "call" /\ log[i].op = "Resume"
            /\ log[j].kind = "call" /\ log[j].op \in StructuralOps)
           => i < j /\ AwaitedAt(i, ClusterStateRunning)
        /\ (/\ log[i].kind = "call" /\ log[i].op = "ResumeWarehouse"
            /\ log[j].kind = "call" /\ log[j].ent = log[i].ent)
           => /\ log[j].op \in StructuralOps => j < i
              /\ log[j].op = "UpsertClusterConfig" =>
                   /\ i < j
                   /\ log[i + 1].kind = "wait" => AwaitedAt(i, ClusterStateRunning)

ResumeOrderWitness ==
    /\ op = "update"
    /\ \E i, j \in DOMAIN log :
         /\ j < i
         /\ log[i].kind = "call" /\ log[i].op = "ResumeWarehouse"
         /\ log[j].kind = "call" /\ log[j].op \in StructuralOps /\ log[j].ent = log[i].ent

\* the names of the CreateWarehouse calls, in the order of the calls
CreatedNames ==
    LET cs == SelectSeq(log, LAMBDA e : e.kind = "call" /\ e.op = "CreateWarehouse")
    IN  [i \in DOMAIN cs |-> cs[i].ent]

\* C8: a create issues one Deploy whose items are the coordinator and the
\* default warehouse only; every CreateWarehouse comes after the wait of that
\* Deploy ended in running; the named warehouses are created one call each
\* in the declared order, all of them when the create completes.
DeployThenWarehouses ==
    op = "create" =>
      LET deploys == {p \in DOMAIN log : log[p].kind = "call" /\ log[p].op = "Deploy"}
          declared == [i \in DOMAIN new.warehouse |-> TrimSpace(new.warehouse[i].name)]
      IN  /\ Cardinality(deploys) <= 1
          /\ \A p \in deploys :
               /\ Len(log[p].arg.ClusterItems) = 2
               /\ log[p].arg.ClusterItems[1].Type = "FE"
               /\ log[p].arg.ClusterItems[2].Name = DEFAULT_WAREHOUSE_NAME
          /\ \A q \in DOMAIN log :
               (log[q].kind = "call" /\ log[q].op = "CreateWarehouse")
               => \E p \in deploys : p + 1 < q /\ AwaitedAt(p, ClusterStateRunning)
          /\ Len(CreatedNames) <= Len(declared)
          /\ CreatedNames = SubSeq(declared, 1, Len(CreatedNames))
          /\ (pc \in {"cr_suspend", "read"} \/ (pc = "done" /\ diags = <<>>))
             => Cardinality(deploys) = 1 /\ CreatedNames = declared

DeployThenWarehousesWitness ==
    /\ op = "create"
    /\ pc = "done"
    /\ diags = <<>>
    /\ Len(new.warehouse) >= 2
    /\ Len(CreatedNames) = Len(new.warehouse)

\* C9: an update of a named warehouse that changes both compute_node_size and
\* compute_node_count issues ScaleWarehouseSize, waits for running or
\* abnormal, issues ScaleWarehouseNum, waits again, and only then changes the
\* volume or the configuration of that warehouse.
SizeThenCount ==
    (/\ sub.caller \in {"direct", "modified"}
     /\ ~sub.whExternalInfo.IsDefaultWarehouse
     /\ sub.oldParamMap.compute_node_size # sub.newParamMap.compute_node_size
     /\ sub.oldParamMap.compute_node_count # sub.newParamMap.compute_node_count)
    => LET w == sub.newParamMap.name
           At(p, name) ==
               p \in DOMAIN log /\ log[p].kind = "call" /\ log[p].op = name /\ log[p].ent = w
           Waited(p) ==
               /\ AwaitedAt(p, ClusterStateRunning)
               /\ log[p + 1].arg.target = {ClusterStateRunning, ClusterStateAbnormal}
       IN  /\ \A p \in DOMAIN log :
                At(p, "ScaleWarehouseNum") => At(p - 2, "ScaleWarehouseSize") /\ Waited(p - 2)
           /\ \A p \in DOMAIN log :
                (At(p, "ModifyClusterVolume") \/ At(p, "UpsertClusterConfig"))
                => \E q \in DOMAIN log : q + 1 < p /\ At(q, "ScaleWarehouseNum") /\ Waited(q)

SizeThenCountWitness ==
    /\ sub.caller = "direct"
    /\ pc = "done"
    /\ \E p, q, r, t \in DOMAIN log :
         /\ p < q /\ q < r /\ r < t
         /\ log[p].op = "ScaleWarehouseSize"
         /\ log[q].op = "ScaleWarehouseNum"
         /\ log[r].op = "ModifyClusterVolume"
         /\ log[t].op = "UpsertClusterConfig"

\* the interval a state holds for the entity of an idle-configuration call
OldInterval(ent) ==
    IF ent = "cluster" THEN old.idle_suspend_interval
    ELSE Lookup(old.warehouse, ent).idle_suspend_interval

\* C10: an update that sets an idle_suspend_interval from a positive value to
\* 0 calls the idle configuration with state = false and the interval of
\* the old value, for the cluster and for a named warehouse alike.
DisableKeepsLastInterval ==
    op = "update" =>
      \A p \in DOMAIN log :
        (/\ log[p].kind = "call"
         /\ log[p].op \in {"UpdateClusterIdleConfig", "UpdateWarehouseIdleConfig"}
         /\ log[p].ent \in {"cluster"} \cup NamesOf(old.warehouse)
         /\ OldInterval(log[p].ent) > 0
         /\ ~log[p].arg.State)
        => log[p].arg.IntervalMs = OldInterval(log[p].ent) * MsPerMinute

\* the names an update adds, removes and keeps
Added == NamesOf(new.warehouse) \ NamesOf(old.warehouse)
Removed == NamesOf(old.warehouse) \ NamesOf(new.warehouse)
Modified == NamesOf(old.warehouse) \cap NamesOf(new.warehouse)

\* the positions of the log where the call name is issued on the entity
CallsOn(name, ent) ==
    {p \in DOMAIN log : log[p].kind = "call" /\ log[p].op = name /\ log[p].ent = ent}

\* the calls that only updateWarehouse issues
UpdateOnlyOps ==
    {"ChangeWarehouseDistribution", "ScaleWarehouseSize", "ScaleWarehouseNum",
     "ModifyClusterVolume", "ResumeWarehouse", "DeleteWarehouseAutoScalingConfig"}

\* the update is past both loops over the named warehouses
PastWarehouseLoops ==
    \/ pc \in {"u_suspend", "u_ami", "u_ami_wh", "u_ami_fe"}
    \/ pc = "done" /\ diags = <<>>

\* C11: an update puts every name of the old and new warehouse lists in
\* exactly one of added (one createWarehouse), removed (one ReleaseWarehouse
\* with the persisted id of that name) and modified (one updateWarehouse);
\* when only a name of the old list is missing from the new one, that name
\* is released and nothing is created.
DiffClassification ==
    op = "update" =>
      /\ \A p \in DOMAIN log :
           (log[p].kind = "call" /\ log[p].ent \notin {"cluster", "FE", DEFAULT_WAREHOUSE_NAME})
           => /\ log[p].op = "CreateWarehouse" =>
                   /\ log[p].ent \in Added
                   /\ CallsOn("CreateWarehouse", log[p].ent) = {p}
              /\ log[p].op = "ReleaseWarehouse" =>
                   /\ log[p].ent \in Removed
                   /\ CallsOn("ReleaseWarehouse", log[p].ent) = {p}
                   /\ log[p].arg.WarehouseId = old.warehouse_external_info[log[p].ent].Id
              /\ log[p].op \in UpdateOnlyOps => log[p].ent \in Modified
      /\ sub.caller = "modified" =>
           /\ sub.newParamMap.name \in Modified
           /\ sub.newParamMap = new.warehouse[whi]
           /\ sub.oldParamMap \in {old.warehouse[i] : i \in DOMAIN old.warehouse}
           /\ sub.oldParamMap.name = sub.newParamMap.name
      /\ sub.caller = "added" =>
           /\ sub.newParamMap.name \in Added
           /\ sub.newParamMap = new.warehouse[whi]
      /\ (PastWarehouseLoops /\ HasChange("warehouse")) =>
           /\ \A n \in Added : Cardinality(CallsOn("CreateWarehouse", n)) = 1
           /\ \A n \in Removed : Cardinality(CallsOn("ReleaseWarehouse", n)) = 1

DiffClassificationWitness ==
    /\ op = "update"
    /\ pc = "done"
    /\ diags = <<>>
    /\ Added = {}
    /\ \E n \in Removed :
         /\ Removed = {n}
         /\ CallsOn("ReleaseWarehouse", n) # {}
         /\ new.warehouse = SelectSeq(old.warehouse, LAMBDA w : w.name # n)

\* the new list is the old list with the name a replaced by the name b
IsRename(a, b) ==
    \E i \in DOMAIN old.warehouse :
      /\ old.warehouse[i].name = a
      /\ new.warehouse = [old.warehouse EXCEPT ![i].name = b]

\* C12: replacing the name a of a named warehouse by a new name b, all
\* other fields equal, gives one CreateWarehouse for b and one
\* ReleaseWarehouse for the persisted id of a, and no other call on a.
RenameIsReleaseAndCreate ==
    op = "update" =>
      \A a \in NamesOf(old.warehouse) : \A b \in Names \ NamesOf(old.warehouse) :
        IsRename(a, b) =>
          /\ \A p \in DOMAIN log :
               (log[p].kind = "call" /\ log[p].ent = a)
               => /\ log[p].op = "ReleaseWarehouse"
                  /\ log[p].arg.WarehouseId = old.warehouse_external_info[a].Id
          /\ Cardinality(CallsOn("CreateWarehouse", b)) <= 1
          /\ Cardinality(CallsOn("ReleaseWarehouse", a)) <= 1
          /\ PastWarehouseLoops =>
               /\ Cardinality(CallsOn("CreateWarehouse", b)) = 1
               /\ Cardinality(CallsOn("ReleaseWarehouse", a)) = 1

RenameIsReleaseAndCreateWitness ==
    /\ op = "update"
    /\ pc = "done"
    /\ diags = <<>>
    /\ \E a \in NamesOf(old.warehouse) : \E b \in Names \ NamesOf(old.warehouse) :
         /\ IsRename(a, b)
         /\ CallsOn("CreateWarehouse", b) # {}
         /\ CallsOn("ReleaseWarehouse", a) # {}

MultiAzMessage ==
    "in multi-AZ deployment mode, the number of coordinator nodes should be greater than or equal to 3"

\* every check of the plan other than the one on the coordinator count passes
OtherPreconditionsHold ==
    customizeEl2Diff(old, [new EXCEPT !.coordinator_node_count = 3], id) = ""

\* C13: with every other precondition satisfied, the validation of a plan
\* fails iff the network is multi-AZ and the coordinator count is below 3,
\* and so does the network step of create, for every coordinator count.
MultiAzNeedsThreeCoordinators ==
    LET tooFew == MultiAz(new.network_id) /\ new.coordinator_node_count < 3
    IN  /\ (pc = "validated" /\ OtherPreconditionsHold) => ((diags # <<>>) <=> tooFew)
        /\ (pc = "validated" /\ diags # <<>> /\ diags[1].summary = MultiAzMessage) => tooFew
        /\ (pc = "cr_deploy") => ~tooFew
        /\ (op = "create" /\ pc = "done" /\ diags[1].summary = MultiAzMessage) => tooFew
        /\ (op = "create" /\ pc = "done" /\ tooFew) =>
              diags[1].summary \in {MultiAzMessage, "get network failed"}

\* both validations refused a single coordinator on a multi-AZ network
MultiAzNeedsThreeCoordinatorsWitness ==
    /\ MultiAz(new.network_id)
    /\ new.coordinator_node_count = 1
    /\ OtherPreconditionsHold
    /\ diags = <<ErrorDiag(MultiAzMessage)>>
    /\ \/ pc = "validated" /\ op = "update"
       \/ pc = "done" /\ op = "create"

\* the entities whose declared volume size is smaller in the plan than in the state
ShrunkVolumes ==
    {e \in {"FE"} :
        VolumeOr(new.coordinator_node_volume_config, DefaultFeVolumeMap).vol_size
          < VolumeOr(old.coordinator_node_volume_config, DefaultFeVolumeMap).vol_size}
    \cup {e \in {DEFAULT_WAREHOUSE_NAME} :
        VolumeOr(new.default_warehouse.compute_node_volume_config, DefaultBeVolumeMap).vol_size
          < VolumeOr(old.default_warehouse.compute_node_volume_config, DefaultBeVolumeMap).vol_size}
    \cup {e \in Modified :
        VolumeOr(Lookup(new.warehouse, e).compute_node_volume_config, DefaultBeVolumeMap).vol_size
          < VolumeOr(Lookup(old.warehouse, e).compute_node_volume_config, DefaultBeVolumeMap).vol_size}

\* C14: an update whose plan shrinks the volume size of the coordinator or of
\* a warehouse is rejected, whatever else the plan changes: it ends with an
\* error, so the smaller size never becomes the state.
VolumeDecreaseRejected ==
    (op = "update" /\ pc = "done" /\ ShrunkVolumes # {}) => HasError

\* the invocation ended on a wait that saw the abnormal state
EndedAbnormal ==
    /\ pc = "done"
    /\ log # <<>>
    /\ log[Len(log)].kind = "wait"
    /\ log[Len(log)].arg.result = ClusterStateAbnormal

\* C15: after an awaited operation ended abnormal the persisted cluster id is
\* cleared on the delete path only; create and update keep it.
IdClearedOnDeleteOnly ==
    EndedAbnormal => ((id = "") <=> (op = "delete"))

\* a wait that failed or saw a failed terminal state
FailedWait(e) ==
    /\ e.kind = "wait"
    /\ e.arg.result \in {"error", ClusterStateAbnormal, InfraFailed}

\* the last thing the invocation did failed: a failed wait (the first wait of
\* delete looks at its error only), or any failure a diagnostic was returned for
Failed ==
    \/ diags # <<>>
    \/ /\ log # <<>>
       /\ FailedWait(log[Len(log)])
       /\ ~(op = "delete" /\ Len(log) = 1 /\ log[1].arg.result # "error")

\* C16: after a failed call, a failed wait or an abnormal or failed terminal
\* state the invocation has returned with a diagnostic: it issues no further
\* call or wait and repeats nothing.
StopAtFirstFailure ==
    /\ [](Failed => (pc = "done" /\ diags # <<>>))
    /\ [][(Failed /\ runs' = runs) => (log' = log /\ diags' = diags /\ pc' = pc)]_vars

\* the coordinator scale-up timed out and the changed node count was never sent
StopAtFirstFailureWitness ==
    /\ op = "update"
    /\ pc = "done"
    /\ Len(log) > 1
    /\ log[Len(log)].kind = "wait"
    /\ log[Len(log)].arg.result = "error"
    /\ log[Len(log) - 1].op = "ScaleUp"
    /\ HasChange("coordinator_node_count")
    /\ Len(diags) = 1

\* the create handler returned the warning of a failed createWarehouse
WarehouseCreationFailed ==
    /\ op = "create"
    /\ pc = "done"
    /\ \E i \in DOMAIN diags : diags[i].summary = "Create warehouse failed"

\* C17: during create, the failure to create one named warehouse is a warning
\* and does not stop the reconciliation: every other declared warehouse is
\* still created and the final read-back is still performed.
CreateContinuesPastFailedWarehouse ==
    WarehouseCreationFailed =>
      /\ ~HasError
      /\ \A i \in DOMAIN new.warehouse :
            \E p \in DOMAIN log :
              /\ log[p].kind = "call"
              /\ log[p].op = "CreateWarehouse"
              /\ log[p].ent = TrimSpace(new.warehouse[i].name)
      /\ log[Len(log)] = Query("Get", "cluster")

\* the invocation ended on a wait that failed, e.g. on its timeout
EndedOnWaitError ==
    /\ pc = "done"
    /\ log # <<>>
    /\ log[Len(log)].kind = "wait"
    /\ log[Len(log)].arg.result = "error"

\* the call the last wait of the log waited for, if it waited for one: the
\* waits for a quiescent cluster wait for no call of the invocation
AwaitedCall ==
    IF Len(log) > 1 /\ log[Len(log)].arg.target # QuiescentStates
    THEN log[Len(log) - 1].op
    ELSE "none"

\* the waits whose failure is returned as a warning: the deploy wait of
\* create, the wait for a warehouse to suspend, and every wait of a
\* createWarehouse that create called
WarnsOnTimeout ==
    \/ AwaitedCall \in {"Deploy", "SuspendWarehouse"}
    \/ op = "create" /\ AwaitedCall = "CreateWarehouse"

\* what the invocation had done before the wait failed is still there: the
\* deployed cluster keeps its id and the warehouses created are live
MutationsLeftInPlace ==
    /\ (op = "create" /\ \E p \in DOMAIN log : log[p].op = "Deploy") => id = ClusterId
    /\ \A p \in DOMAIN log :
         (log[p].op = "CreateWarehouse" /\ p + 1 < Len(log)) => log[p].ent \in DOMAIN wstate
    /\ \A p \in DOMAIN log : log[p].op = "ReleaseWarehouse" => log[p].ent \notin NamesOf(new.warehouse)

\* C18 as stated: a wait that times out in create, update or delete is
\* returned as an error-severity diagnostic.
TimeoutIsError ==
    EndedOnWaitError => diags[Len(diags)].severity = "error"

\* C18: a wait that times out ends the invocation with one diagnostic and
\* nothing is rolled back; the diagnostic is an error, except for the deploy
\* wait of create, the suspend wait of a warehouse and the waits of a
\* warehouse created during create, where it is a warning. (The waits of
\* UpdateClusterState report through code outside this file.)
TimeoutSeverity ==
    (EndedOnWaitError /\ AwaitedCall \notin {"Suspend", "Resume"}) =>
      /\ Len(diags) = 1
      /\ diags[1].severity = IF WarnsOnTimeout THEN "warning" ELSE "error"
      /\ MutationsLeftInPlace

\* the deploy wait of a create timed out: a warning, and the cluster id is kept
TimeoutSeverityWitness ==
    /\ EndedOnWaitError
    /\ op = "create"
    /\ AwaitedCall = "Deploy"
    /\ diags = <<WarningDiag("Operation state not complete")>>
    /\ id = ClusterId

PolicyOps ==
    {"UpdateResourceTags", "UpdateDeploymentScripts", "SaveWarehouseAutoScalingConfig",
     "DeleteWarehouseAutoScalingConfig", "UpdateClusterIdleConfig", "UpdateWarehouseIdleConfig",
     "UpsertClusterConfig"}

\* the summaries of the diagnostics update returns when one of them fails
PolicyFailures ==
    {"failed to update resource tags", "failed to update init-scripts",
     "Update warehouse auto-scaling configuration failed",
     "Delete warehouse auto scaling config failed", "config cluster idle config failed",
     "Config warehouse idle config failed", "upsert config failed"}

\* the update returned because the policy call it had just issued failed
PolicyCallFailed ==
    /\ op = "update"
    /\ pc = "done"
    /\ log # <<>>
    /\ log[Len(log)].kind = "call"
    /\ log[Len(log)].op \in PolicyOps
    /\ \E i \in DOMAIN diags : diags[i].summary \in PolicyFailures

\* C20: during update the failure of a synchronous policy call is returned
\* as a warning, never as an error.
PolicyFailureIsWarning ==
    PolicyCallFailed => ~HasError

\* the log ends with what resourceElasticClusterV2Read issues: the wait for a
\* quiescent cluster and the query of the cluster
EndsWithReadBack ==
    /\ Len(log) > 1
    /\ log[Len(log)] = Query("Get", "cluster")
    /\ log[Len(log) - 1].kind = "wait"
    /\ log[Len(log) - 1].arg.target = QuiescentStates

\* C21: every successful update ends, as create does, with a read-back of
\* the cluster, so that the state handed back is the observed one.
SuccessEndsWithReadBack ==
    (op \in {"create", "update"} /\ pc = "done" /\ diags = <<>>) => EndsWithReadBack

\* a wait until the cluster is in none of the transient states
QuiescenceWait(e) ==
    /\ e.kind = "wait"
    /\ e.ent = "cluster"
    /\ e.arg.pending = TransientStates
    /\ e.arg.target = QuiescentStates

\* C22 as stated: on every entry point, create included, the first remote
\* call is the wait for a quiescent cluster.
QuiescenceFirstEverywhere ==
    log # <<>> => QuiescenceWait(log[1])

\* C22: read, update and delete first wait until the cluster is in none of the
\* transient states and issue another call only when that wait found a
\* quiescent cluster; so does the read that ends create. Create itself, which
\* has no cluster yet, first queries the network and then deploys.
QuiescenceFirst ==
    /\ (op \in {"read", "update", "delete"} /\ log # <<>>) =>
          /\ QuiescenceWait(log[1])
          /\ Len(log) > 1 => log[1].arg.result \in QuiescentStates
    /\ op = "create" =>
          /\ log # <<>> => log[1] = Query("GetNetwork", "cluster")
          /\ Len(log) > 1 => log[2].op = "Deploy"
          /\ \A p \in DOMAIN log :
                log[p] = Query("Get", "cluster") =>
                  QuiescenceWait(log[p - 1]) /\ log[p - 1].arg.result \in QuiescentStates

\* a delete released the cluster after its wait found it quiescent
QuiescenceFirstWitness ==
    /\ op = "delete"
    /\ Len(log) > 1
    /\ QuiescenceWait(log[1])
    /\ log[2].op = "Release"

\* the calls that always return the id of an action the handler waits for;
\* the other asynchronous calls are waited for when they return an action id
AwaitedOps ==
    {"Deploy", "Release", "Suspend", "Resume", "ScaleUp", "ScaleOut", "ScaleIn",
     "ScaleWarehouseSize", "ScaleWarehouseNum", "ChangeWarehouseDistribution", "UpgradeAMI"}

\* C23: at most one asynchronous action is outstanding: the wait for an
\* action is what follows the call that started it, so no other call is
\* issued between the two, and every wait other than the waits for a
\* quiescent cluster directly follows the call it waits for.
OneActionOutstanding ==
    /\ \A p \in DOMAIN log :
         (log[p].kind = "call" /\ log[p].op \in AwaitedOps /\ p < Len(log)) =>
           /\ log[p + 1].kind = "wait"
           /\ log[p + 1].ent = log[p].ent
           /\ ~QuiescenceWait(log[p + 1])
    /\ \A p \in DOMAIN log :
         (log[p].kind = "wait" /\ ~QuiescenceWait(log[p])) =>
           /\ p > 1
           /\ log[p - 1].kind = "call"
           /\ log[p - 1].ent = log[p].ent
    /\ \A p \in DOMAIN log :
         (log[p].kind = "call" /\ log[p].op \in AwaitedOps /\ p = Len(log)) => pc = "done"

\* two awaited actions in a row: the size of a warehouse, then its node count
OneActionOutstandingWitness ==
    \E p \in DOMAIN log :
      /\ p + 3 <= Len(log)
      /\ log[p].op = "ScaleWarehouseSize"
      /\ log[p + 1].kind = "wait"
      /\ log[p + 2].op = "ScaleWarehouseNum"
      /\ log[p + 3].kind = "wait"

\* C24: when the polls observe pending states and then a first target state,
\* the wait succeeds reporting that state after exactly as many polls as
\* states observed; a wait succeeds in no other way; when no target state is
\* observed within the timeout the wait returns a timeout error; and a wait
\* that returned polls no more.
PollerContract ==
    /\ [](LET n == Len(log)
              T == sub.targetStates
              P == sub.pendingStates
          IN  /\ (n > 0 /\ log[n] \in T /\ \A i \in 1..(n - 1) : log[i] \in P) =>
                    (pc = "done" /\ diags = <<>> /\ cstate = log[n] /\ whi = n)
              /\ (pc = "done" /\ diags = <<>>) =>
                    (n > 0 /\ log[n] \in T /\ cstate = log[n] /\ whi = n
                     /\ \A i \in 1..(n - 1) : log[i] \notin T)
              /\ (pc = "done" /\ diags = <<ErrorDiag("timeout while waiting for state")>>) =>
                    (whi = sub.timeout /\ \A i \in 1..n : log[i] \notin T)
              /\ (pc = "poll" /\ whi = sub.timeout) => ENABLED PollTimeout)
    /\ [][pc = "done" => (whi' = whi /\ log' = log)]_vars

\* three pending states and then running: success after four polls
PollerContractWitness ==
    /\ op = "wait"
    /\ pc = "done"
    /\ diags = <<>>
    /\ log = <<ClusterStateScaling, ClusterStateScaling, ClusterStateScaling, ClusterStateRunning>>
    /\ whi = 4
    /\ cstate = ClusterStateRunning

\* every warehouse of c has the architecture of the coordinator
ArchConsistent(c) ==
    \A w \in {c.default_warehouse} \cup {c.warehouse[i] : i \in DOMAIN c.warehouse} :
      VmInfo(w.compute_node_size).Arch = VmInfo(c.coordinator_node_size).Arch

\* C25: a plan that the validation accepts gives every warehouse, default and
\* named, the architecture of the coordinator, and so does every state that
\* a sequence of accepted creates and updates leaves.
ArchitectureInvariant ==
    /\ (pc = "validated" /\ diags = <<>>) => ArchConsistent(new)
    /\ op = "update" => ArchConsistent(old)

\* an arm instance type for a warehouse under an x86 coordinator was refused
ArchitectureInvariantWitness ==
    /\ pc = "validated"
    /\ ~ArchConsistent(new)
    /\ VmInfo(new.coordinator_node_size).Arch = "x86"
    /\ diags = <<ErrorDiag("the vm instance architecture of the warehouse must be the same as the coordinator node")>>

\* the warehouses of the plan whose instance type is of another disk type
\* than their persisted record says; the record under the reserved name is
\* the default warehouse's, whatever named warehouse trims to that name
DiskTypeChanged ==
    {w \in {new.default_warehouse}
            \cup {new.warehouse[i] : i \in {j \in DOMAIN new.warehouse :
                       TrimSpace(new.warehouse[j].name) # DEFAULT_WAREHOUSE_NAME}} :
        /\ TrimSpace(w.name) \in DOMAIN new.warehouse_external_info
        /\ new.warehouse_external_info[TrimSpace(w.name)].IsInstanceStore
             # VmInfo(w.compute_node_size).IsInstanceStore}

TypeOK ==
    /\ op \in {"create", "update", "delete", "read"}
    /\ pc \in {"plan", "validated"} \cup {UpdateSteps[i] : i \in DOMAIN UpdateSteps}
          \cup {CreateSteps[i] : i \in DOMAIN CreateSteps}
          \cup {DeleteSteps[i] : i \in DOMAIN DeleteSteps}
          \cup {UpdateWarehouseSteps[i] : i \in DOMAIN UpdateWarehouseSteps}
          \cup {CreateWarehouseSteps[i] : i \in DOMAIN CreateWarehouseSteps}
    /\ pc # "return"
    /\ whi \in 0..4
    /\ runs \in 1..MaxRuns
    /\ edits \in 0..MaxEdits

\* the CreateWarehouse calls issued under the reserved name or a name with '-'
ReservedNameCalls ==
    {p \in DOMAIN log :
        /\ log[p].kind = "call" /\ log[p].op = "CreateWarehouse"
        /\ (log[p].arg.Name = DEFAULT_WAREHOUSE_NAME \/ ContainsDash(log[p].arg.Name))}

\* C27: no CreateWarehouse call carries the name default_warehouse or a name
\* containing '-', and a configuration declaring such a name for a named
\* warehouse issues no remote call at all.
ReservedNamesNeverCreated ==
    /\ ReservedNameCalls = {}
    /\ (\E i \in DOMAIN new.warehouse :
           new.warehouse[i].name = DEFAULT_WAREHOUSE_NAME \/ ContainsDash(new.warehouse[i].name))
       => log = <<>>

\* two entries of a list under one name, the key of the update diff
SharedKey(whs) == \E i, j \in DOMAIN whs : i # j /\ whs[i].name = whs[j].name

\* C28: a declared list of named warehouses with a repeated name is rejected,
\* so in the persisted list and in every accepted list a name identifies at
\* most one entry.
RepeatedNamesRejected ==
    /\ ~SharedKey(old.warehouse)
    /\ (pc = "validated" /\ SharedKey(new.warehouse)) => diags # <<>>

RepeatedNamesRejectedWitness ==
    /\ pc = "validated"
    /\ id # ""
    /\ old.warehouse # <<>>
    /\ SharedKey(new.warehouse)
    /\ diags # <<>>

(***************************************************************************)
(* The order of the checks of customizeEl2Diff.                            *)
(***************************************************************************)
Check(hit, msg) == [hit |-> hit, msg |-> msg]

\* the message of the first check of a sequence that is hit, "" without one
FirstHit(checks) ==
    IF \A k \in DOMAIN checks : ~checks[k].hit THEN ""
    ELSE checks[CHOOSE k \in DOMAIN checks :
                  checks[k].hit /\ \A l \in 1..(k - 1) : ~checks[l].hit].msg

VmMissing == "vm info not exists"
SpecifyAzMessage == "specify_az parameter only takes effect when the distribution_policy value is specify_az"
FeArchMessage == "the vm instance architecture can not be changed"
FeVolumeMessage == "the coordinator node vol_size does not support decrease"
WhArchMessage == "the vm instance architecture of the warehouse must be the same as the coordinator node"
LocalDiskMessage == "the vm instance type of the warehouse does not support specifying the volume config of disks"
DiskTypeMessage == "the disk type of the warehouse must be the same as the previous disk type"
NamesMessage == "only one warehouse with that name is allowed"

WrongArch(w) == VmInfo(w.compute_node_size).Arch # VmInfo(new.coordinator_node_size).Arch
LocalDiskWithVolume(w) ==
    VmInfo(w.compute_node_size).IsInstanceStore /\ w.compute_node_volume_config # <<>>
OtherDiskType(w) ==
    /\ id # ""
    /\ TrimSpace(w.name) \in DOMAIN new.warehouse_external_info
    /\ new.warehouse_external_info[TrimSpace(w.name)].IsInstanceStore
         # VmInfo(w.compute_node_size).IsInstanceStore
SameTrimmedName(whs) ==
    \E i, j \in DOMAIN whs : i # j /\ TrimSpace(whs[i].name) = TrimSpace(whs[j].name)

\* the checks on the coordinator and on the fields of every warehouse
CoordinatorChecks ==
    <<Check(~VmInfoExists(new.coordinator_node_size), VmMissing),
      Check(new.network_id # "" /\ MultiAz(new.network_id) /\ new.coordinator_node_count < 3,
            MultiAzMessage),
      Check(\E w \in {new.default_warehouse} \cup {new.warehouse[i] : i \in DOMAIN new.warehouse} :
               w.distribution_policy # SPECIFY_AZ /\ w.specify_az # "", SpecifyAzMessage),
      Check(id # "" /\ old.coordinator_node_size # new.coordinator_node_size
               /\ ~VmInfoExists(old.coordinator_node_size), VmMissing),
      Check(id # "" /\ old.coordinator_node_size # new.coordinator_node_size
               /\ VmInfo(old.coordinator_node_size).Arch # VmInfo(new.coordinator_node_size).Arch,
            FeArchMessage),
      Check(id # "" /\ old.coordinator_node_volume_config # new.coordinator_node_volume_config
               /\ VolumeOr(new.coordinator_node_volume_config, DefaultFeVolumeMap).vol_size
                  < VolumeOr(old.coordinator_node_volume_config, DefaultFeVolumeMap).vol_size,
            FeVolumeMessage)>>

\* the checks on one warehouse, and on the warehouses of a list one by one
ItemChecks(w) ==
    <<Check(~VmInfoExists(w.compute_node_size), VmMissing),
      Check(WrongArch(w), WhArchMessage),
      Check(LocalDiskWithVolume(w), LocalDiskMessage)>>

ListChecks(whs) ==
    [k \in 1..(3 * Len(whs)) |-> ItemChecks(whs[(k + 2) \div 3])[((k - 1) % 3) + 1]]

\* the checks in the order the validator makes them
ChecksAsMade ==
    CoordinatorChecks
    \o (IF old.default_warehouse # new.default_warehouse
        THEN ItemChecks(new.default_warehouse)
             \o <<Check(OtherDiskType(new.default_warehouse), DiskTypeMessage)>>
        ELSE <<>>)
    \o (IF old.warehouse # new.warehouse
        THEN <<Check(SameTrimmedName(new.warehouse), NamesMessage)>>
             \o ListChecks(new.warehouse)
             \o <<Check(\E i \in DOMAIN new.warehouse : OtherDiskType(new.warehouse[i]),
                        DiskTypeMessage)>>
        ELSE <<>>)

\* the warehouses of the blocks of the plan that changed
CheckedWarehouses ==
    (IF old.default_warehouse # new.default_warehouse THEN {new.default_warehouse} ELSE {})
    \cup (IF old.warehouse # new.warehouse THEN {new.warehouse[i] : i \in DOMAIN new.warehouse}
          ELSE {})

\* the checks in one list by kind: architecture, local disk, disk type, names
ChecksByKind ==
    CoordinatorChecks
    \o <<Check(\E w \in CheckedWarehouses : WrongArch(w), WhArchMessage),
         Check(\E w \in CheckedWarehouses : LocalDiskWithVolume(w), LocalDiskMessage),
         Check(\E w \in CheckedWarehouses : OtherDiskType(w), DiskTypeMessage),
         Check(old.warehouse # new.warehouse /\ SameTrimmedName(new.warehouse), NamesMessage)>>

Reported(checks) ==
    pc = "validated"
    => diags = (IF FirstHit(checks) = "" THEN <<>> ELSE <<ErrorDiag(FirstHit(checks))>>)

CoordinatorScaleOps == {"ScaleUp", "ScaleOut", "ScaleIn"}
WarehouseScaleOps == {"ScaleWarehouseSize", "ScaleWarehouseNum"}

\* the positions of the waits that follow a scale call of the given kinds
ScaleWaits(ops) ==
    {p \in DOMAIN log :
        /\ p > 1
        /\ log[p].kind = "wait"
        /\ log[p - 1].kind = "call" /\ log[p - 1].op \in ops}

\* C30 as stated: every wait after a scale operation, of the coordinator or
\* of a warehouse, has the pending set {scaling} and the target set
\* {running, abnormal}.
ScaleWaitsPendScaling ==
    \A p \in ScaleWaits(CoordinatorScaleOps \cup WarehouseScaleOps) :
      /\ log[p].arg.pending = {ClusterStateScaling}
      /\ log[p].arg.target = {ClusterStateRunning, ClusterStateAbnormal}

\* C30: every wait after a scale operation has the target set {running,
\* abnormal}; its pending set is {scaling} after ScaleUp, ScaleOut and ScaleIn
\* of the coordinator and {running, scaling} after ScaleWarehouseSize and
\* ScaleWarehouseNum.
ScaleWaitStates ==
    /\ \A p \in ScaleWaits(CoordinatorScaleOps) :
         /\ log[p].arg.pending = {ClusterStateScaling}
         /\ log[p].arg.target = {ClusterStateRunning, ClusterStateAbnormal}
    /\ \A p \in ScaleWaits(WarehouseScaleOps) :
         /\ log[p].arg.pending = {ClusterStateRunning, ClusterStateScaling}
         /\ log[p].arg.target = {ClusterStateRunning, ClusterStateAbnormal}

\* one update that scaled the coordinator and a warehouse and awaited both
ScaleWaitStatesWitness ==
    /\ ScaleWaits(CoordinatorScaleOps) # {}
    /\ ScaleWaits(WarehouseScaleOps) # {}
    /\ pc = "done"
    /\ diags = <<>>

\* the initial wait of a delete reported the cluster released
FoundReleasedOnDelete ==
    /\ op = "delete"
    /\ log # <<>>
    /\ log[1].kind = "wait" /\ log[1].arg.result = ClusterStateReleased

\* C31: a delete whose initial wait reports the cluster released issues no
\* Release call and returns without a diagnostic.
ReleasedIsAlreadyDeleted ==
    FoundReleasedOnDelete =>
      /\ \A p \in DOMAIN log : ~(log[p].kind = "call" /\ log[p].op = "Release")
      /\ (pc = "done" => diags = <<>>)

\* the read ended: its wait, and its Get when there was one
ReadWait == CHOOSE p \in DOMAIN log : QuiescenceWait(log[p]) /\ p >= Len(log) - 1
ReadEnded ==
    /\ pc = "done"
    /\ op \in {"read", "create"}
    /\ \E p \in DOMAIN log : QuiescenceWait(log[p]) /\ p >= Len(log) - 1

StayingRecords(o, n) ==
    {k \in DOMAIN o.warehouse_external_info \cap DOMAIN n.warehouse_external_info :
        \/ k = DEFAULT_WAREHOUSE_NAME
        \/ \E i \in DOMAIN o.warehouse : \E j \in DOMAIN n.warehouse :
              o.warehouse[i].name = n.warehouse[j].name /\ TrimSpace(o.warehouse[i].name) = k}

EveryWarehouseHasRecord ==
    (op \in {"create", "update"} /\ pc = "done" /\ diags = <<>> /\ id # "") =>
      \A n \in {DEFAULT_WAREHOUSE_NAME} \cup NamesOf(new.warehouse) :
        TrimSpace(n) \in DOMAIN new.warehouse_external_info

\* the fields of the plan that may not differ from the persisted state
ChangedForbidden ==
    {f \in {"csp", "region", "cluster_name", "default_admin_password", "data_credential_id",
            "deployment_credential_id", "network_id", "query_port"} : old[f] # new[f]}

\* C35: an update of an existing cluster whose plan changes csp, region,
\* cluster_name, default_admin_password, data_credential_id,
\* deployment_credential_id, network_id or query_port issues no remote call
\* and ends with the error, whatever else the plan changes.
ImmutableFieldsRejected ==
    (op = "update" /\ ChangedForbidden # {} /\ pc # "plan") =>
      /\ log = <<>>
      /\ pc \in {"u_immutable", "done"}
      /\ pc = "done" => diags = <<ErrorDiag("field is not allowed to be modified")>>

\* the query port and the coordinator count were changed in one plan
ImmutableFieldsRejectedWitness ==
    /\ op = "update"
    /\ pc = "done"
    /\ ChangedForbidden = {"query_port"}
    /\ old.coordinator_node_count # new.coordinator_node_count
    /\ log = <<>>
    /\ diags = <<ErrorDiag("field is not allowed to be modified")>>

\* C36: an update whose initial wait finds the cluster released or abnormal
\* issues no call, ends with an error, and clears the persisted id when the
\* cluster is released and keeps it when the cluster is abnormal.
UpdateOfLostCluster ==
    (/\ op = "update"
     /\ log # <<>>
     /\ QuiescenceWait(log[1])
     /\ log[1].arg.result \in {ClusterStateReleased, ClusterStateAbnormal}) =>
      /\ Len(log) = 1
      /\ pc = "done"
      /\ HasError
      /\ (id = "") <=> (log[1].arg.result = ClusterStateReleased)

\* an update with changes to apply found its cluster abnormal
UpdateOfLostClusterWitness ==
    /\ op = "update"
    /\ old # new
    /\ log # <<>>
    /\ log[1].arg.result = ClusterStateAbnormal
    /\ diags = <<ErrorDiag(AbnormalReason)>>
    /\ id = ClusterId

\* the errors of the rules on custom_ami
AmiRuleMessages ==
    {"custom ami can only be specified when creating cluster",
     "custom ami os can not be changed",
     "custom ami can only be upgraded when the cluster and all warehouse states are running"}

UpgradeCalls == {p \in DOMAIN log : log[p].kind = "call" /\ log[p].op = "UpgradeAMI"}
Upgraded ==
    LET cs == SelectSeq(log, LAMBDA e : e.kind = "call" /\ e.op = "UpgradeAMI")
    IN  [i \in DOMAIN cs |-> cs[i].ent]

\* the warehouses of the cluster in the order it lists them, then the
\* coordinator group
ToUpgrade ==
    SelectSeq(<<DEFAULT_WAREHOUSE_NAME, "a", "b", "c", "c ">>, LAMBDA n : n \in DOMAIN wstate)
    \o <<"FE">>

\* C38: an image upgrade issues UpgradeAMI once per warehouse of the cluster
\* and last for the coordinator group; each is awaited on its infra action
\* and the next is issued only when it succeeded; an update that returned
\* nothing upgraded all of them.
UpgradeOneByOne ==
    /\ Len(Upgraded) <= Len(ToUpgrade)
    /\ Upgraded = SubSeq(ToUpgrade, 1, Len(Upgraded))
    /\ \A p \in UpgradeCalls :
         /\ p < Len(log) =>
              /\ log[p + 1].kind = "wait"
              /\ log[p + 1].op = "WaitClusterInfraActionStateChangeComplete"
              /\ log[p + 1].arg.pending = {InfraPending, InfraOngoing}
              /\ log[p + 1].arg.target = {InfraSucceeded, InfraCompleted, InfraFailed}
         /\ (\E q \in UpgradeCalls : q > p) =>
              /\ log[p + 1].arg.result \in {InfraSucceeded, InfraCompleted}
              /\ p + 2 \in UpgradeCalls
         /\ (p = Len(log) \/ log[p + 1].arg.result \notin {InfraSucceeded, InfraCompleted}) =>
              pc = "done" /\ HasError
    /\ (pc = "done" /\ diags = <<>> /\ UpgradeCalls # {}) => Upgraded = ToUpgrade

\* the upgrade of a warehouse failed and the coordinator was left alone
UpgradeOneByOneWitness ==
    /\ Len(Upgraded) = 2
    /\ Len(ToUpgrade) > 2
    /\ log[Len(log)].kind = "wait"
    /\ log[Len(log)].arg.result = InfraFailed
    /\ pc = "done"

\* a sizing field of the coordinator or of a warehouse differs in the plan
SizingChanged ==
    \/ old.coordinator_node_size # new.coordinator_node_size
    \/ old.coordinator_node_count # new.coordinator_node_count
    \/ old.default_warehouse.compute_node_size # new.default_warehouse.compute_node_size
    \/ old.default_warehouse.compute_node_count # new.default_warehouse.compute_node_count
    \/ [i \in DOMAIN old.warehouse |->
           <<old.warehouse[i].name, old.warehouse[i].compute_node_size, old.warehouse[i].compute_node_count>>]
       # [i \in DOMAIN new.warehouse |->
           <<new.warehouse[i].name, new.warehouse[i].compute_node_size, new.warehouse[i].compute_node_count>>]

\* C39: UnlockFreeTier is issued only by an update of a cluster whose
\* free_tier flag is true and whose plan changes a sizing field of the
\* coordinator or of a warehouse.
UnlockOnlyFreeTier ==
    (\E p \in DOMAIN log : log[p].kind = "call" /\ log[p].op = "UnlockFreeTier") =>
      (op = "update" /\ new.free_tier /\ SizingChanged)

\* C40: one updateWarehouse of a named warehouse issues at most one of
\* ResumeWarehouse and SuspendWarehouse, the resume before and the suspend
\* after the upsert of compute_node_configs; an updateWarehouse of the
\* default warehouse issues no resume, no suspend and no idle-config call,
\* whatever fields of it change.
StateCalls(names) ==
    {p \in DOMAIN log : log[p].kind = "call" /\ log[p].op \in names}

ResumeOrSuspendAroundConfigs ==
    LET resumes == StateCalls({"ResumeWarehouse"})
        suspends == StateCalls({"SuspendWarehouse"})
        upserts == StateCalls({"UpsertClusterConfig"})
    IN  /\ Cardinality(resumes \cup suspends) <= 1
        /\ \A p \in resumes : \A q \in upserts : p < q
        /\ \A p \in suspends : \A q \in upserts : q < p
        /\ sub.whExternalInfo.IsDefaultWarehouse
           => StateCalls({"ResumeWarehouse", "SuspendWarehouse", "UpdateWarehouseIdleConfig"}) = {}

ResumeOrSuspendAroundConfigsWitness ==
    /\ sub.caller = "direct"
    /\ pc = "done"
    /\ ~sub.whExternalInfo.IsDefaultWarehouse
    /\ sub.oldParamMap.expected_state # sub.newParamMap.expected_state
    /\ sub.oldParamMap.compute_node_configs # sub.newParamMap.compute_node_configs
    /\ StateCalls({"UpsertClusterConfig"}) # {}
    /\ StateCalls({"SuspendWarehouse"}) # {}

====
